---- MODULE Spec2Model ----
(***************************************************************************)
(* A model of the mcs chat service: the load balancer's backend            *)
(* bookkeeping (lb/src/state/lb.rs, lb/src/core.rs), the chat server's     *)
(* connection task, presence, session and broadcast logic (server/src/     *)
(* main.rs, service, repository, transport), the message store's history   *)
(* query (repository/postgres.rs), the wire codec (protocol/src/lib.rs),   *)
(* the in-memory ChatServer (server/src/state.rs), the in-process bus      *)
(* with the Live loop's select! (service/state.rs, transport/session.rs),  *)
(* the load balancer's per-ip quota records with its accept loop and       *)
(* cleanup task (lb/src/state/client.rs), its RateLimitedStream            *)
(* (lb/src/rate_limiter.rs) and the client's backwards pagination          *)
(* (client/src/app.rs).                                                    *)
(***************************************************************************)
EXTENDS Integers, Sequences, FiniteSets, TLC

(***************************************************************************)
(* Bounds of the model.                                                    *)
(***************************************************************************)
\* backends known to the directory in the load balancer's concurrent model
NumBackends == 2
\* handle_connection tasks that can be in flight at once
NumTasks == 2
\* backends of the snapshots next_backend is applied to in SpecPick
PickBackends == 3
\* largest active_connections of those snapshots
MaxActive == 3
\* usernames clients log in with
NumUsers == 1
\* passwords clients log in with
NumPasswords == 2
\* connections the chat servers of the cluster accept
NumSessions == 2
\* Chat frames the clients send
MaxChats == 1
\* largest timestamp of the stored messages get_recent_messages is tried on
MaxTimestamp == 3
\* longest ASCII string in a message on the wire
MaxStrLen == 1
\* longest of the arbitrary byte sequences the decoder is fed
MaxFuzzLen == 6
\* valid names register_user is called with
NumNames == 2
\* connections that register with the in-memory ChatServer at once
NumWriters == 2
\* time-out broadcasts after which no new registration is tried
MaxTimeouts == 1
\* messages sent on the bus beyond its capacity in SpecBus
MaxLag == 2
\* messages sent on the bus in SpecSession
MaxBusMessages == 3
\* frames a client sends in SpecSession
MaxFrames == 2

\* broadcast calls that run concurrently with the register_user calls
NumBroadcasts == 2

\* cells of the bandwidth limiter's burst, a cell standing for as many bytes
\* as make the burst BurstCells cells
BurstCells == 3
\* the most cells one read of the inner stream fills
MaxRead == 3
\* poll_read is not followed beyond this debt
MaxPending == 4

\* source ips of the load balancer's clients
NumIps == 1
\* ClientStates created in a run
MaxRecords == 2
\* passes of the cleanup task in a run
MaxPasses == 1

Addr == 1..NumBackends
Task == 1..NumTasks
PickAddr == 1..PickBackends

\* Option<String>::None as returned by next_backend (addresses are 1..n)
None == 0

\* usize arithmetic wraps modulo 2^64 in release builds; the modulus is narrowed
\* to 2^30 so that TLC's integers can hold it (counts stay far below either)
USIZE_MOD == 1073741824

VARIABLES
    backends,      \* LoadBalancerState.backends: addr -> BackendState
    iter,          \* iteration order of the HashMap's values()
    tasks,         \* handle_connection tasks: position and backend_addr
    discovery,     \* discovery_task: addresses still to add / to remove
    health,        \* health_check_task: addresses still to probe this cycle
    last_check,    \* history: outcome of the last health check since the add
    ever_removed,  \* history: addresses remove_backend has removed
    marked,        \* history: addresses the health loop marked unhealthy and has
                   \* not seen pass a check since
    served,        \* history: addresses some finished task has spliced to
    picks          \* history: results of next_backend since the map last changed

lbvars == <<backends, iter, tasks, discovery, health, last_check, ever_removed,
            marked, served, picks>>

VARIABLES
    presence,      \* directory: seconds left of user:session:{username}, 0 = no key
    users,         \* table users: username -> password the stored hash verifies
    sessions,      \* chat-server connections: position, username, password, packet,
                   \* first event read, frames written in the greeting, seconds
                   \* since the client's last frame
    saved,         \* table messages: packets save_message has inserted
    published,     \* packets published on channel mcs:chat
    next_id,       \* packets constructed so far
    chats,         \* Chat frames clients have sent so far
    stale          \* history: seconds since a SET or EXPIRE last found or set the
                   \* key of a username, at most PRESENCE_TTL

chatvars == <<presence, users, sessions, saved, published, next_id, chats, stale>>

VARIABLES
    rows,          \* table messages as get_recent_messages reads it
    history,       \* the last get_recent_messages call: cursor and result
    sent,          \* the messages a peer has encoded onto a connection
    wire,          \* their bytes not yet received
    buf,           \* the BytesMut the decoder works on
    decoded        \* what the decode calls on buf have returned so far

purevars == <<rows, history, sent, wire, buf, decoded>>

VARIABLES
    active_users,  \* ChatServer.active_users: entries of name, writer and the
                   \* milliseconds since last_seen
    chat_history,  \* ChatServer.chat_history
    reaper,        \* the reaper task: milliseconds until its next tick and the
                   \* timed_out_users still to broadcast
    result         \* what the last call on the ChatServer returned

memvars == <<active_users, chat_history, reaper, result>>

VARIABLES
    bus,           \* internal_broadcast_tx: the number of messages sent on it
    rxs            \* the sessions of the process with their bus receivers

busvars == <<bus, rxs>>

VARIABLES
    owner          \* history: the session whose SET NX last created the presence
                   \* key of a username, None before the first
keyvars == <<owner>>

VARIABLES
    clients,       \* LoadBalancerState.clients: ip -> the id of its ClientState
    records,       \* the ClientStates created so far: last_seen_ms and the cells
                   \* left in its connection_limiter
    clock,         \* SystemTime::now in milliseconds
    cleanup,       \* the cleanup task: its position, its reading of now and the
                   \* ips retain has not visited yet
    listener,      \* the accept loop: its position, the ip and ClientState of the
                   \* accept under way, the time it stamped, the verdict of the
                   \* last one
    conns          \* the tasks spawned for accepted connections: position, ip,
                   \* and the ClientState whose bandwidth_limiter its stream holds

quotavars == <<clients, records, clock, cleanup, listener, conns>>

VARIABLES
    stream,        \* a RateLimitedStream: pending_bytes, sleep, and what its last
                   \* poll_read did
    limiter        \* the cells left in the shared bandwidth limiter

streamvars == <<stream, limiter>>

VARIABLES
    calls,         \* concurrent calls on the in-memory ChatServer: position
    mem            \* its chat_history and active_users with what each writer got

racevars == <<calls, mem>>

VARIABLES
    pager          \* a client paginating backwards: cursor and packets received

pagevars == <<pager>>

extvars == <<keyvars, quotavars, streamvars, racevars, pagevars>>

vars == <<lbvars, chatvars, purevars, memvars, busvars, extvars>>

BackendState(ac, h) == [active_connections |-> ac, is_healthy |-> h]

\* all orders in which a HashMap holding the keys S can iterate
Perms(S) ==
    {f \in [1..Cardinality(S) -> S] : \A i, j \in 1..Cardinality(S) : i # j => f[i] # f[j]}

Remove(s, a) == SelectSeq(s, LAMBDA x : x # a)

Min(S) == CHOOSE m \in S : \A x \in S : m <= x

(***************************************************************************)
(* LoadBalancerState (lb/src/state/lb.rs)                                  *)
(***************************************************************************)

\* .values().filter(|b| b.is_healthy): the healthy backends in iteration order
HealthyInOrder(bs, order) == SelectSeq(order, LAMBDA a : bs[a].is_healthy)

\* Iterator::min_by_key: the first element with the minimal key, None if empty
MinByKey(bs, s) ==
    IF s = <<>> THEN None
    ELSE LET m == Min({bs[s[i]].active_connections : i \in 1..Len(s)})
             i == Min({j \in 1..Len(s) : bs[s[j]].active_connections = m})
         IN  s[i]

\* faulty variant: the health filter is forgotten
next_backend_unfiltered(bs, order) == {MinByKey(bs, order)}

\* faulty variant: max_by_key instead of min_by_key
next_backend_max(bs, order) ==
    LET s == HealthyInOrder(bs, order)
    IN  IF s = <<>> THEN {None}
        ELSE {s[Min({j \in 1..Len(s) :
                 \A k \in 1..Len(s) :
                    bs[s[k]].active_connections <= bs[s[j]].active_connections})]}

\* faulty variant: ties broken by a fresh random choice on every call
next_backend_any_tie(bs, order) ==
    LET s == HealthyInOrder(bs, order)
    IN  IF s = <<>> THEN {None}
        ELSE {s[j] : j \in {k \in 1..Len(s) :
                 \A l \in 1..Len(s) :
                    bs[s[k]].active_connections <= bs[s[l]].active_connections}}

\* next_backend: the set of values the call can return (one value)
next_backend(bs, order) == {MinByKey(bs, HealthyInOrder(bs, order))}

\* faulty variant: the new entry starts unhealthy
add_backend_unhealthy(bs, addr, active_connections) ==
    [a \in DOMAIN bs \cup {addr} |->
        IF a = addr THEN BackendState(active_connections, FALSE) ELSE bs[a]]

\* add_backend: HashMap::insert, overwriting any entry, is_healthy: true
add_backend(bs, addr, active_connections) ==
    [a \in DOMAIN bs \cup {addr} |->
        IF a = addr THEN BackendState(active_connections, TRUE) ELSE bs[a]]

\* remove_backend: HashMap::remove
remove_backend(bs, addr) == [a \in DOMAIN bs \ {addr} |-> bs[a]]

\* get_backend_addrs
get_backend_addrs(bs) == DOMAIN bs

\* faulty variant: the health flag is stored inverted
set_health_inverted(bs, addr, is_healthy) ==
    IF addr \in DOMAIN bs THEN [bs EXCEPT ![addr].is_healthy = ~is_healthy] ELSE bs

\* set_health: a no-op on an address that is not in the map
set_health(bs, addr, is_healthy) ==
    IF addr \in DOMAIN bs THEN [bs EXCEPT ![addr].is_healthy = is_healthy] ELSE bs

\* inc_backend_connection: the maps the call can leave behind and whether the
\* task survived. `+= 1` on usize::MAX panics in a debug build and wraps in a
\* release build.
inc_backend_connection(bs, addr) ==
    IF addr \notin DOMAIN bs THEN {[bs |-> bs, panicked |-> FALSE]}
    ELSE IF bs[addr].active_connections + 1 = USIZE_MOD
         THEN {[bs |-> bs, panicked |-> TRUE],
               [bs |-> [bs EXCEPT ![addr].active_connections = 0], panicked |-> FALSE]}
         ELSE {[bs |-> [bs EXCEPT ![addr].active_connections = @ + 1],
                panicked |-> FALSE]}

\* dec_backend_connection: `-= 1` on 0 panics in a debug build and wraps to
\* usize::MAX in a release build.
dec_backend_connection(bs, addr) ==
    IF addr \notin DOMAIN bs THEN {[bs |-> bs, panicked |-> FALSE]}
    ELSE IF bs[addr].active_connections = 0
         THEN {[bs |-> bs, panicked |-> TRUE],
               [bs |-> [bs EXCEPT ![addr].active_connections = USIZE_MOD - 1],
                panicked |-> FALSE]}
         ELSE {[bs |-> [bs EXCEPT ![addr].active_connections = @ - 1],
                panicked |-> FALSE]}

(***************************************************************************)
(* LoadBalancer (lb/src/core.rs)                                           *)
(***************************************************************************)

Idle == [pc |-> "idle", backend_addr |-> None]

\* history: the map changed, so earlier next_backend results say nothing
\* about the next one
MapChanged(bs) == IF bs = backends THEN picks ELSE <<>>

Picked(r) == IF Len(picks) < 2 THEN Append(picks, r) ELSE <<picks[2], r>>

\* handle_connection up to its first await on the network: next_backend,
\* `None => return Ok(())`
HandleStart(t) ==
    /\ tasks[t].pc = "idle"
    /\ \E r \in next_backend(backends, iter) :
         /\ tasks' = [tasks EXCEPT ![t] =
                IF r = None THEN Idle ELSE [pc |-> "dial", backend_addr |-> r]]
         /\ picks' = Picked(r)
    /\ UNCHANGED <<extvars, chatvars, memvars, busvars, purevars, backends, iter, discovery, health, last_check, ever_removed,
                   marked, served>>

\* TcpStream::connect(&backend_addr).await? and inc_backend_connection
HandleDial(t) ==
    /\ tasks[t].pc = "dial"
    /\ \E connected \in BOOLEAN :
         IF ~connected
         THEN /\ tasks' = [tasks EXCEPT ![t] = Idle]
              /\ UNCHANGED <<backends, picks>>
         ELSE \E o \in inc_backend_connection(backends, tasks[t].backend_addr) :
                /\ backends' = o.bs
                /\ picks' = MapChanged(o.bs)
                /\ tasks' = [tasks EXCEPT ![t] =
                       IF o.panicked THEN Idle ELSE [@ EXCEPT !.pc = "copy"]]
    /\ UNCHANGED <<extvars, chatvars, memvars, busvars, purevars, iter, discovery, health, last_check, ever_removed, marked, served>>

\* faulty variant: `result?` placed before the decrement, so that a copy that
\* ends with an error skips it
after_copy_error_skips_dec(bs, addr, copy_ok) ==
    IF copy_ok THEN dec_backend_connection(bs, addr)
    ELSE {[bs |-> bs, panicked |-> FALSE]}

\* the statements after copy_bidirectional returns: the decrement comes
\* before `result?`, whatever the copy's result
after_copy(bs, addr, copy_ok) == dec_backend_connection(bs, addr)

\* copy_bidirectional returns (Ok or Err), dec_backend_connection, return
HandleCopyEnd(t) ==
    /\ tasks[t].pc = "copy"
    /\ \E copy_ok \in BOOLEAN :
       \E o \in after_copy(backends, tasks[t].backend_addr, copy_ok) :
         /\ backends' = o.bs
         /\ picks' = MapChanged(o.bs)
    /\ tasks' = [tasks EXCEPT ![t] = Idle]
    /\ served' = served \cup {tasks[t].backend_addr}
    /\ UNCHANGED <<extvars, chatvars, memvars, busvars, purevars, iter, discovery, health, last_check, ever_removed, marked>>

\* the future of handle_connection is dropped at one of its awaits (the
\* runtime shuts down): nothing after the await runs
HandleCancel(t) ==
    /\ tasks[t].pc \in {"dial", "copy"}
    /\ tasks' = [tasks EXCEPT ![t] = [@ EXCEPT !.pc = "cancelled"]]
    /\ UNCHANGED <<extvars, chatvars, memvars, busvars, purevars, backends, iter, discovery, health, last_check, ever_removed,
                   marked, served, picks>>

\* discovery_task, one tick: the directory query fails (`continue`) or returns
\* redis_backends; current_backends is read once
DiscoveryTick ==
    /\ discovery.to_add = {} /\ discovery.to_remove = {}
    /\ \E query_ok \in BOOLEAN, redis_backends \in SUBSET Addr :
         LET current_backends == get_backend_addrs(backends)
         IN  discovery' =
               IF query_ok
               THEN [to_add |-> redis_backends \ current_backends,
                     to_remove |-> current_backends \ redis_backends,
                     redis_backends |-> redis_backends]
               ELSE discovery
    /\ UNCHANGED <<extvars, chatvars, memvars, busvars, purevars, backends, iter, tasks, health, last_check, ever_removed,
                   marked, served, picks>>

\* first loop of the tick: state.add_backend(addr.clone(), 0)
DiscoveryAdd ==
    /\ discovery.to_add # {}
    /\ \E addr \in discovery.to_add :
         /\ backends' = add_backend(backends, addr, 0)
         /\ iter' \in Perms(DOMAIN backends \cup {addr})
         /\ discovery' = [discovery EXCEPT !.to_add = @ \ {addr}]
         /\ last_check' = [last_check EXCEPT ![addr] = "none"]
    /\ picks' = <<>>
    /\ UNCHANGED <<extvars, chatvars, memvars, busvars, purevars, tasks, health, ever_removed, marked, served>>

\* second loop of the tick: state.remove_backend(addr)
DiscoveryRemove ==
    /\ discovery.to_add = {} /\ discovery.to_remove # {}
    /\ \E addr \in discovery.to_remove :
         /\ backends' = remove_backend(backends, addr)
         /\ iter' = Remove(iter, addr)
         /\ discovery' = [discovery EXCEPT !.to_remove = @ \ {addr}]
         /\ last_check' = [last_check EXCEPT ![addr] = "none"]
         /\ ever_removed' = ever_removed \cup {addr}
    /\ picks' = <<>>
    /\ UNCHANGED <<extvars, chatvars, memvars, busvars, purevars, tasks, health, marked, served>>

\* health_check_task, one tick: get_backend_addrs
HealthTick ==
    /\ health = {}
    /\ health' = get_backend_addrs(backends)
    /\ UNCHANGED <<extvars, chatvars, memvars, busvars, purevars, backends, iter, tasks, discovery, last_check, ever_removed,
                   marked, served, picks>>

\* health_check_task, one address: connect with a timeout, set_health
HealthCheck ==
    /\ health # {}
    /\ \E addr \in health, is_healthy \in BOOLEAN :
         /\ backends' = set_health(backends, addr, is_healthy)
         /\ picks' = MapChanged(set_health(backends, addr, is_healthy))
         /\ health' = health \ {addr}
         /\ last_check' = IF addr \in DOMAIN backends
                          THEN [last_check EXCEPT ![addr] =
                                   IF is_healthy THEN "pass" ELSE "fail"]
                          ELSE last_check
         /\ marked' = IF is_healthy THEN marked \ {addr}
                      ELSE IF addr \in DOMAIN backends THEN marked \cup {addr}
                      ELSE marked
    /\ UNCHANGED <<extvars, chatvars, memvars, busvars, purevars, iter, tasks, discovery, ever_removed, served>>

(***************************************************************************)
(* Chat server: directory, stores, services and sessions                   *)
(***************************************************************************)

User == 1..NumUsers
Password == 1..NumPasswords
Session == 1..NumSessions

\* the usernames Join frames carry: 0 is too short, the others are users
Name == 0..NumUsers

\* sender of a system packet (ChatPacket::new_server_packet), no username
SERVER == 0

\* no row in table users
NO_ROW == 0

\* SET user:session:{username} online NX EX 30: the TTL in seconds
PRESENCE_TTL == 30

\* the session ticker's period in seconds, the unit in which time advances
SESSION_TICK == 10

\* register_and_login: the least length of a trimmed username, in bytes
MIN_USERNAME == 3

\* the byte ' '
SPACE == 32

\* the bytes of the usernames: " al" for 0, "us1", "us2", ... for the users
UsernameText(n) == IF n = 0 THEN <<SPACE, 97, 108>> ELSE <<117, 115, 48 + n>>

\* str::trim on ASCII text: leading and trailing white space removed
RECURSIVE TrimStart(_)
TrimStart(s) == IF s # <<>> /\ Head(s) = SPACE THEN TrimStart(Tail(s)) ELSE s

RECURSIVE TrimEnd(_)
TrimEnd(s) ==
    IF s # <<>> /\ s[Len(s)] = SPACE THEN TrimEnd(SubSeq(s, 1, Len(s) - 1)) ELSE s

trim(s) == TrimEnd(TrimStart(s))

\* faulty variant: the length is taken of the untrimmed username
username_too_short_untrimmed(username) == Len(UsernameText(username)) < MIN_USERNAME

\* register_and_login: `username.trim().len() < 3`
username_too_short(username) == Len(trim(UsernameText(username))) < MIN_USERNAME

\* the events framed_reader.next() can yield first on a connection
FirstEvent == {"Join", "Chat", "Heartbeat", "Error", "DecodeError", "Eof"}

\* faulty variant: any frame that decodes starts the registration
first_is_join_any_frame(ev) == ev \notin {"DecodeError", "Eof"}

\* main: `if let Some(Ok(Message::Join(name))) = framed_reader.next().await`
first_is_join(ev) == ev = "Join"

NoPacket == [id |-> 0, sender |-> SERVER]

\* frames the server writes to a client
ErrorFrame(kind) == [kind |-> "Error", error |-> kind, packet |-> 0]
ChatFrame(id) == [kind |-> "Chat", error |-> "", packet |-> id]
HistoryResponseFrame == [kind |-> "HistoryResponse", error |-> "", packet |-> 0]
NoFrame == [kind |-> "", error |-> "", packet |-> 0]

\* Error::to_chat_error: the kind of Error frame a service error becomes
to_chat_error(e) ==
    CASE e = "Network" -> "Network"
      [] e = "UsernameTaken" -> "UsernameTaken"
      [] e = "UsernameTooShort" -> "UsernameTooShort"
      [] OTHER -> "Internal"

\* a connection: err is the Err of register_and_login, reply the frame the
\* last handle_client_message call wrote
Greeting == [st |-> "greeting", username |-> 1, password |-> 1, packet |-> NoPacket,
             first |-> "", out |-> <<>>, silent |-> 0, err |-> "", reply |-> NoFrame]

\* faulty variant: SET without NX, which always succeeds
set_online_no_nx(pr, username) ==
    [ok |-> TRUE, presence |-> [pr EXCEPT ![username] = PRESENCE_TTL]]

\* RedisRepository::set_online: SET NX EX 30, true iff the key did not exist
set_online(pr, username) ==
    IF pr[username] = 0
    THEN [ok |-> TRUE, presence |-> [pr EXCEPT ![username] = PRESENCE_TTL]]
    ELSE [ok |-> FALSE, presence |-> pr]

\* RedisRepository::set_offline: DEL, whoever set the key
set_offline(pr, username) == [pr EXCEPT ![username] = 0]

\* faulty variant: EXPIRE with twice the TTL
refresh_heartbeat_long(pr, username) ==
    IF pr[username] > 0 THEN [pr EXCEPT ![username] = 2 * PRESENCE_TTL] ELSE pr

\* RedisRepository::refresh_heartbeat: EXPIRE key 30, nothing if there is no key
refresh_heartbeat(pr, username) ==
    IF pr[username] > 0 THEN [pr EXCEPT ![username] = PRESENCE_TTL] ELSE pr

\* PostgresRepository::verify_credentials: the row's hash verifies the password
verify_credentials(us, username, password) ==
    us[username] # NO_ROW /\ us[username] = password

\* faulty variant: ON CONFLICT (username) DO UPDATE SET password_hash
create_user_upsert(us, username, password) == [us EXCEPT ![username] = password]

\* PostgresRepository::create_user: INSERT ... ON CONFLICT (username) DO NOTHING
create_user(us, username, password) ==
    IF us[username] = NO_ROW THEN [us EXCEPT ![username] = password] ELSE us

\* faulty variant: the result of save_message is dropped and the packet is
\* published whether or not it was saved
broadcast_message_ignores_save(step, ok) ==
    IF step = "save"
    THEN [save |-> ok, publish |-> FALSE, next |-> "publish"]
    ELSE [save |-> FALSE, publish |-> ok, next |-> IF ok THEN "ok" ELSE "err"]

\* ChatService::broadcast_user_message / broadcast_system_message, one await:
\* `save_message(&packet).await?` and then `broadcast(Message::Chat(packet)).await?`
broadcast_message(step, ok) ==
    IF step = "save"
    THEN [save |-> ok, publish |-> FALSE, next |-> IF ok THEN "publish" ELSE "err"]
    ELSE [save |-> FALSE, publish |-> ok, next |-> IF ok THEN "ok" ELSE "err"]

Live == {"live", "chat_save", "chat_publish"}

IsLive(s) == sessions[s].st \in Live

\* a connection that has ended: nothing of it is read again
Closed == [st |-> "closed", username |-> 1, password |-> 1, packet |-> NoPacket,
           first |-> "", out |-> <<>>, silent |-> 0, err |-> "", reply |-> NoFrame]

Goto(s, st) ==
    sessions' = [sessions EXCEPT ![s] =
                    IF st = "closed"
                    THEN [Closed EXCEPT !.first = sessions[s].first,
                                        !.out = sessions[s].out]
                    ELSE [@ EXCEPT !.st = st]]

\* handle_registration's Err arm: `writer.send(Message::Error(e.to_chat_error()))`
\* and the connection task returns
Reject(s, e) ==
    sessions' = [sessions EXCEPT ![s] =
                    [Closed EXCEPT !.first = sessions[s].first,
                                   !.err = e,
                                   !.out = <<ErrorFrame(to_chat_error(e))>>]]

\* ChatPacket::new_user_packet / new_server_packet
NewPacket(sender) == [id |-> next_id + 1, sender |-> sender]

\* the ids of a set of packets in the order of the messages table
RECURSIVE SortedIds(_)
SortedIds(S) ==
    IF S = {} THEN <<>>
    ELSE LET p == CHOOSE q \in S : \A r \in S : q.id <= r.id
         IN  <<p.id>> \o SortedIds(S \ {p})

\* the first frame of a connection is Join{username, password};
\* register_and_login rejects a short username before any await
SessionJoin(s) ==
    /\ sessions[s].st = "greeting"
    /\ first_is_join("Join")
    /\ \E u \in Name, p \in Password :
         IF username_too_short(u)
         THEN sessions' = [sessions EXCEPT ![s] =
                 [Closed EXCEPT !.first = "Join", !.username = u,
                                !.err = "UsernameTooShort",
                                !.out = <<ErrorFrame(to_chat_error("UsernameTooShort"))>>]]
         ELSE sessions' = [sessions EXCEPT ![s] =
                 [Greeting EXCEPT !.st = "verify", !.username = u, !.password = p,
                                  !.first = "Join"]]
    /\ UNCHANGED <<extvars, lbvars, memvars, busvars, purevars, presence, users, saved, published, next_id, chats, stale>>

\* the first frame is no Join, or does not decode, or the connection ends
\* before any frame: the connection task returns
SessionNoJoin(s) ==
    /\ sessions[s].st = "greeting"
    /\ \E ev \in FirstEvent \ {"Join"} :
         sessions' = [sessions EXCEPT ![s] =
             IF first_is_join(ev)
             THEN [Greeting EXCEPT !.st = "verify", !.first = ev]
             ELSE [Closed EXCEPT !.first = ev]]
    /\ UNCHANGED <<extvars, lbvars, memvars, busvars, purevars, presence, users, saved, published, next_id, chats, stale>>

\* register_and_login: the first verify_credentials
AuthVerify(s) ==
    /\ sessions[s].st = "verify"
    /\ \E db_ok \in BOOLEAN :
         IF ~db_ok THEN Reject(s, "Database")
         ELSE Goto(s, IF verify_credentials(users, sessions[s].username,
                                            sessions[s].password)
                      THEN "set_online" ELSE "create")
    /\ UNCHANGED <<extvars, lbvars, memvars, busvars, purevars, presence, users, saved, published, next_id, chats, stale>>

\* register_and_login: create_user
AuthCreate(s) ==
    /\ sessions[s].st = "create"
    /\ \E db_ok \in BOOLEAN :
         IF db_ok
         THEN /\ users' = create_user(users, sessions[s].username, sessions[s].password)
              /\ Goto(s, "verify2")
         ELSE /\ Reject(s, "Database")
              /\ UNCHANGED users
    /\ UNCHANGED <<extvars, lbvars, memvars, busvars, purevars, presence, saved, published, next_id, chats, stale>>

\* register_and_login: the second verify_credentials, InvalidCredentials
AuthVerifyAgain(s) ==
    /\ sessions[s].st = "verify2"
    /\ \E db_ok \in BOOLEAN :
         IF ~db_ok THEN Reject(s, "Database")
         ELSE IF verify_credentials(users, sessions[s].username, sessions[s].password)
              THEN Goto(s, "set_online")
              ELSE Reject(s, "InvalidCredentials")
    /\ UNCHANGED <<extvars, lbvars, memvars, busvars, purevars, presence, users, saved, published, next_id, chats, stale>>

\* register_and_login: set_online, UsernameTaken; on success the join flow
\* constructs the '<user> joined.' packet
AuthSetOnline(s) ==
    /\ sessions[s].st = "set_online"
    /\ \E redis_ok \in BOOLEAN :
         LET r == set_online(presence, sessions[s].username)
         IN  IF redis_ok /\ r.ok
             THEN /\ presence' = r.presence
                  /\ stale' = [stale EXCEPT ![sessions[s].username] = 0]
                  /\ sessions' = [sessions EXCEPT ![s].st = "join_save",
                                                  ![s].password = 1,
                                                  ![s].packet = NewPacket(SERVER)]
                  /\ next_id' = next_id + 1
                  /\ owner' = [owner EXCEPT ![sessions[s].username] = s]
             ELSE /\ Reject(s, IF redis_ok THEN "UsernameTaken" ELSE "Redis")
                  /\ UNCHANGED <<presence, next_id, stale, owner>>
    /\ UNCHANGED <<quotavars, streamvars, racevars, pagevars, lbvars, memvars, busvars, purevars, users, saved, published, chats>>

\* the effect of one await of broadcast_*_message on the stores
Broadcast(s, r) ==
    /\ saved' = IF r.save THEN saved \cup {sessions[s].packet} ELSE saved
    /\ published' = IF r.publish THEN published \cup {sessions[s].packet} ELSE published

\* handle_registration: broadcast of '<user> joined.'; `?` ends the connection
JoinBroadcast(s) ==
    /\ sessions[s].st \in {"join_save", "join_publish"}
    /\ \E ok \in BOOLEAN :
         LET r == broadcast_message(
                      IF sessions[s].st = "join_save" THEN "save" ELSE "publish", ok)
         IN  /\ Broadcast(s, r)
             /\ CASE r.next = "publish" -> Goto(s, "join_publish")
                  [] r.next = "ok" ->
                       sessions' = [sessions EXCEPT ![s].st = "history",
                                                    ![s].packet = NoPacket]
                  [] OTHER -> Goto(s, "closed")
    /\ UNCHANGED <<extvars, lbvars, memvars, busvars, purevars, presence, users, next_id, chats, stale>>

\* handle_registration: get_history and one Chat frame for each of its
\* packets; `?` ends the connection
JoinHistory(s) ==
    /\ sessions[s].st = "history"
    /\ \E db_ok \in BOOLEAN :
         IF db_ok
         THEN sessions' = [sessions EXCEPT
                  ![s].st = "live",
                  ![s].out = [i \in 1..Cardinality(saved) |->
                                 ChatFrame(SortedIds(saved)[i])]]
         ELSE Goto(s, "closed")
    /\ UNCHANGED <<extvars, lbvars, memvars, busvars, purevars, presence, users, saved, published, next_id, chats, stale>>

\* ClientSession::run / handle_client_message: a Chat frame arrives
LiveChat(s) ==
    /\ sessions[s].st = "live"
    /\ chats < MaxChats
    /\ chats' = chats + 1
    /\ sessions' = [sessions EXCEPT ![s].st = "chat_save",
                                    ![s].packet = NewPacket(sessions[s].username),
                                    ![s].reply = NoFrame,
                                    ![s].silent = 0]
    /\ next_id' = next_id + 1
    /\ UNCHANGED <<extvars, lbvars, memvars, busvars, purevars, presence, users, saved, published, stale>>

\* faulty variant: a failed service call ends the loop
handler_error_breaks(e) == [st |-> "logout", reply |-> ErrorFrame(to_chat_error(e))]

\* handle_client_message, the Err arms of Chat and HistoryRequest:
\* `let _ = self.writer.send(Message::Error(e.to_chat_error()))`, and run's
\* loop goes on
handler_error(e) == [st |-> "live", reply |-> ErrorFrame(to_chat_error(e))]

\* handle_client_message: broadcast_user_message; on Err an Error frame is
\* sent and the session goes on
ChatBroadcast(s) ==
    /\ sessions[s].st \in {"chat_save", "chat_publish"}
    /\ \E ok \in BOOLEAN :
         LET r == broadcast_message(
                      IF sessions[s].st = "chat_save" THEN "save" ELSE "publish", ok)
             h == handler_error(IF sessions[s].st = "chat_save" THEN "Database"
                                ELSE "Redis")
         IN  /\ Broadcast(s, r)
             /\ sessions' = [sessions EXCEPT ![s] =
                    CASE r.next = "publish" -> [@ EXCEPT !.st = "chat_publish"]
                      [] r.next = "ok" -> [@ EXCEPT !.st = "live", !.packet = NoPacket]
                      [] OTHER -> [@ EXCEPT !.st = h.st, !.reply = h.reply,
                                            !.packet = NoPacket]]
    /\ UNCHANGED <<extvars, lbvars, memvars, busvars, purevars, presence, users, next_id, chats, stale>>

\* handle_client_message: a HistoryRequest frame; the history or an Error
\* frame is written
LiveHistoryRequest(s) ==
    /\ sessions[s].st = "live"
    /\ \E db_ok \in BOOLEAN :
         LET h == handler_error("Database")
         IN  sessions' = [sessions EXCEPT ![s] =
                IF db_ok THEN [@ EXCEPT !.reply = HistoryResponseFrame, !.silent = 0]
                ELSE [@ EXCEPT !.st = h.st, !.reply = h.reply, !.silent = 0]]
    /\ UNCHANGED <<extvars, lbvars, memvars, busvars, purevars, presence, users, saved, published, next_id, chats, stale>>

\* an EXPIRE that found the key restarts its 30 s
Refreshed(st, pr, username) ==
    IF pr[username] > 0 THEN [st EXCEPT ![username] = 0] ELSE st

\* handle_client_message: a Heartbeat frame, `let _ = refresh_session`
LiveHeartbeat(s) ==
    /\ sessions[s].st = "live"
    /\ \E redis_ok \in BOOLEAN :
         /\ presence' = IF redis_ok
                        THEN refresh_heartbeat(presence, sessions[s].username)
                        ELSE presence
         /\ stale' = IF redis_ok THEN Refreshed(stale, presence, sessions[s].username)
                     ELSE stale
    /\ sessions' = [sessions EXCEPT ![s].silent = 0, ![s].reply = NoFrame]
    /\ UNCHANGED <<extvars, lbvars, memvars, busvars, purevars, users, saved, published, next_id, chats>>

\* run: interval.tick(), refresh_session; Err breaks the loop
LiveTick(s) ==
    /\ sessions[s].st = "live"
    /\ \E redis_ok \in BOOLEAN :
         IF redis_ok
         THEN /\ presence' = refresh_heartbeat(presence, sessions[s].username)
              /\ stale' = Refreshed(stale, presence, sessions[s].username)
              /\ UNCHANGED sessions
         ELSE /\ Goto(s, "logout")
              /\ UNCHANGED <<presence, stale>>
    /\ UNCHANGED <<extvars, lbvars, memvars, busvars, purevars, users, saved, published, next_id, chats>>

\* run: the reader ends (EOF, decode error) or a write to the client fails
LiveBreak(s) ==
    /\ sessions[s].st = "live"
    /\ Goto(s, "logout")
    /\ UNCHANGED <<extvars, lbvars, memvars, busvars, purevars, presence, users, saved, published, next_id, chats, stale>>

\* faulty variant: `logout(..).await?`, an Err of logout ends disconnect
after_logout_propagates(ok) == IF ok THEN "left_save" ELSE "closed"

\* disconnect: `if let Err(e) = logout(..) { error!(..) }`, and the broadcast
\* of the '<user> left.' packet follows whatever logout returned
after_logout(ok) == "left_save"

\* disconnect: logout, an Err is logged; then the '<user> left.' packet
Disconnect(s) ==
    /\ sessions[s].st = "logout"
    /\ \E redis_ok \in BOOLEAN :
         /\ presence' = IF redis_ok THEN set_offline(presence, sessions[s].username)
                        ELSE presence
         /\ sessions' = [sessions EXCEPT ![s] =
                IF after_logout(redis_ok) = "closed"
                THEN [Closed EXCEPT !.first = sessions[s].first, !.out = sessions[s].out]
                ELSE [@ EXCEPT !.st = after_logout(redis_ok),
                               !.reply = NoFrame,
                               !.packet = NewPacket(SERVER)]]
    /\ next_id' = next_id + 1
    /\ UNCHANGED <<extvars, lbvars, memvars, busvars, purevars, users, saved, published, chats, stale>>

\* disconnect: `let _ = broadcast_system_message('<user> left.')`
LeftBroadcast(s) ==
    /\ sessions[s].st \in {"left_save", "left_publish"}
    /\ \E ok \in BOOLEAN :
         LET r == broadcast_message(
                      IF sessions[s].st = "left_save" THEN "save" ELSE "publish", ok)
         IN  /\ Broadcast(s, r)
             /\ Goto(s, IF r.next = "publish" THEN "left_publish" ELSE "closed")
    /\ UNCHANGED <<extvars, lbvars, memvars, busvars, purevars, presence, users, next_id, chats, stale>>

\* SESSION_TICK seconds pass: every presence key is that much nearer its
\* expiry, every client that sent nothing that much longer silent
Elapse ==
    /\ presence' = [u \in Name |->
                      IF presence[u] > SESSION_TICK THEN presence[u] - SESSION_TICK ELSE 0]
    /\ stale' = [u \in Name |->
                      IF stale[u] + SESSION_TICK < PRESENCE_TTL
                      THEN stale[u] + SESSION_TICK ELSE PRESENCE_TTL]
    /\ sessions' = [s \in Session |->
                      IF IsLive(s) /\ sessions[s].silent <= PRESENCE_TTL
                      THEN [sessions[s] EXCEPT !.silent = @ + SESSION_TICK]
                      ELSE sessions[s]]
    /\ UNCHANGED <<extvars, lbvars, memvars, busvars, purevars, users, saved, published, next_id, chats>>

\* an empty directory, empty tables, connections that have sent nothing yet
ChatInit ==
    /\ presence = [u \in Name |-> 0]
    /\ stale = [u \in Name |-> PRESENCE_TTL]
    /\ users = [u \in Name |-> NO_ROW]
    /\ sessions = [s \in Session |-> Greeting]
    /\ saved = {}
    /\ published = {}
    /\ next_id = 0
    /\ chats = 0

NextChat ==
    \/ \E s \in Session : SessionJoin(s)
    \/ \E s \in Session : SessionNoJoin(s)
    \/ \E s \in Session : AuthVerify(s)
    \/ \E s \in Session : AuthCreate(s)
    \/ \E s \in Session : AuthVerifyAgain(s)
    \/ \E s \in Session : AuthSetOnline(s)
    \/ \E s \in Session : JoinBroadcast(s)
    \/ \E s \in Session : JoinHistory(s)
    \/ \E s \in Session : LiveChat(s)
    \/ \E s \in Session : ChatBroadcast(s)
    \/ \E s \in Session : LiveHistoryRequest(s)
    \/ \E s \in Session : LiveHeartbeat(s)
    \/ \E s \in Session : LiveTick(s)
    \/ \E s \in Session : LiveBreak(s)
    \/ \E s \in Session : Disconnect(s)
    \/ \E s \in Session : LeftBroadcast(s)
    \/ Elapse

(***************************************************************************)
(* Message store: get_recent_messages                                      *)
(***************************************************************************)

\* `LIMIT 50` of get_recent_messages
HISTORY_LIMIT == 50

\* timestamps of stored messages
Timestamp == 1..MaxTimestamp

\* how many messages a store holds of one timestamp
RowCount == {0, 1, HISTORY_LIMIT \div 2, HISTORY_LIMIT}

\* the cursors get_recent_messages is called with
Cursor == 0..(MaxTimestamp + 1) \cup {100}

Repeat(x, n) == [i \in 1..n |-> x]

Reverse(s) == [i \in 1..Len(s) |-> s[Len(s) + 1 - i]]

\* the timestamps of the rows of the table (rs[t] rows with timestamp t) for
\* t from hi down to lo: ORDER BY timestamp DESC
RECURSIVE OrderDesc(_, _, _)
OrderDesc(rs, lo, hi) ==
    IF lo > hi THEN <<>>
    ELSE IF lo = hi THEN Repeat(lo, rs[lo])
    ELSE LET mid == (lo + hi) \div 2
         IN  OrderDesc(rs, mid + 1, hi) \o OrderDesc(rs, lo, mid)

Limit(s, n) == SubSeq(s, 1, IF Len(s) < n THEN Len(s) ELSE n)

\* faulty variant: `timestamp <= $1`
get_recent_messages_inclusive(rs, before_ts) ==
    Reverse(Limit(SelectSeq(OrderDesc(rs, 1, Cardinality(DOMAIN rs)),
                            LAMBDA t : t <= before_ts), HISTORY_LIMIT))

\* faulty variant: the `.rev()` is forgotten
get_recent_messages_no_rev(rs, before_ts) ==
    Limit(SelectSeq(OrderDesc(rs, 1, Cardinality(DOMAIN rs)),
                    LAMBDA t : t < before_ts), HISTORY_LIMIT)

\* PostgresRepository::get_recent_messages: WHERE timestamp < $1 ORDER BY
\* timestamp DESC LIMIT 50, and the rows reversed; a row is its timestamp
get_recent_messages(rs, before_ts) ==
    Reverse(Limit(SelectSeq(OrderDesc(rs, 1, Cardinality(DOMAIN rs)),
                            LAMBDA t : t < before_ts), HISTORY_LIMIT))

\* ChatService::get_history(before_ts) on the table
GetHistory ==
    /\ \E before_ts \in Cursor :
         history' = <<[before_ts |-> before_ts,
                       result |-> get_recent_messages(rows, before_ts)]>>
    /\ UNCHANGED <<extvars, lbvars, memvars, busvars, chatvars, rows, sent, wire, buf, decoded>>

(***************************************************************************)
(* Wire codec: McsCodec                                                    *)
(***************************************************************************)

\* the Strings of the messages as UTF-8 bytes: "", "a", "aa", ... and "é"
RECURSIVE Ascii(_)
Ascii(n) == IF n = 0 THEN {<<>>} ELSE Ascii(n - 1) \cup {Repeat(97, n)}

Str == Ascii(MaxStrLen) \cup {<<195, 169>>}

\* the timestamps of the packets on the wire (i64)
PacketTimestamp == {-1, 258}

ChatMessage(sender, content, timestamp) ==
    [type |-> "Chat",
     packet |-> [sender |-> sender, content |-> content, timestamp |-> timestamp]]
JoinMessage(username) == [type |-> "Join", username |-> username]
HeartbeatMessage == [type |-> "Heartbeat"]
ErrorMessage(text) == [type |-> "Error", text |-> text]

\* enum Message
Message ==
    {ChatMessage(s, c, t) : s \in Str, c \in Str, t \in PacketTimestamp}
        \cup {JoinMessage(s) : s \in Str}
        \cup {HeartbeatMessage}
        \cup {ErrorMessage(s) : s \in Str}

\* the k low bytes of n, big-endian, two's complement (BufMut::put_u32 after
\* `as u32`, put_i64)
RECURSIVE BigEndian(_, _)
BigEndian(n, k) ==
    IF k = 0 THEN <<>> ELSE BigEndian(n \div 256, k - 1) \o <<n % 256>>

put_u32(n) == BigEndian(n, 4)
put_i64(n) == BigEndian(n, 8)

\* Buf::get_u32 / get_i64: big-endian, the first byte holding the sign of i64
RECURSIVE Unsigned(_)
Unsigned(b) ==
    IF b = <<>> THEN 0 ELSE Unsigned(SubSeq(b, 1, Len(b) - 1)) * 256 + b[Len(b)]

get_u32(b) == Unsigned(b)
get_i64(b) == IF b[1] >= 128 THEN Unsigned(<<b[1] - 256>> \o Tail(b)) ELSE Unsigned(b)

\* String::from_utf8(..).is_ok(), for text of one- and two-byte characters
RECURSIVE from_utf8_ok(_)
from_utf8_ok(b) ==
    IF b = <<>> THEN TRUE
    ELSE IF b[1] < 128 THEN from_utf8_ok(Tail(b))
    ELSE /\ b[1] \in 194..223
         /\ Len(b) >= 2
         /\ b[2] \in 128..191
         /\ from_utf8_ok(Tail(Tail(b)))

\* faulty variant: the 12 bytes of timestamp and sender length are left out
\* of the Chat frame's payload length
encode_short_length(item) ==
    CASE item.type = "Chat" ->
           <<1>> \o put_u32(Len(item.packet.sender) + Len(item.packet.content))
                 \o put_i64(item.packet.timestamp)
                 \o put_u32(Len(item.packet.sender))
                 \o item.packet.sender \o item.packet.content
      [] item.type = "Join" -> <<2>> \o put_u32(Len(item.username)) \o item.username
      [] item.type = "Heartbeat" -> <<3>> \o put_u32(0)
      [] item.type = "Error" -> <<4>> \o put_u32(Len(item.text)) \o item.text

\* McsCodec::encode: the bytes appended to dst
encode(item) ==
    CASE item.type = "Chat" ->
           <<1>> \o put_u32(12 + Len(item.packet.sender) + Len(item.packet.content))
                 \o put_i64(item.packet.timestamp)
                 \o put_u32(Len(item.packet.sender))
                 \o item.packet.sender \o item.packet.content
      [] item.type = "Join" -> <<2>> \o put_u32(Len(item.username)) \o item.username
      [] item.type = "Heartbeat" -> <<3>> \o put_u32(0)
      [] item.type = "Error" -> <<4>> \o put_u32(Len(item.text)) \o item.text

\* the outcomes of a decode call with the buffer it leaves
Incomplete(rest) == [status |-> "incomplete", msg |-> <<>>, rest |-> rest]
Decoded(msg, rest) == [status |-> "ok", msg |-> msg, rest |-> rest]
DecodeError(rest) == [status |-> "err", msg |-> <<>>, rest |-> rest]
Panic(rest) == [status |-> "panic", msg |-> <<>>, rest |-> rest]

\* decode of a whole frame: the match on msg_type
decode_payload(msg_type, payload, rest) ==
    CASE msg_type = 1 ->
           IF Len(payload) < 12 THEN DecodeError(rest)
           ELSE LET timestamp == get_i64(SubSeq(payload, 1, 8))
                    name_length == get_u32(SubSeq(payload, 9, 12))
                    after == SubSeq(payload, 13, Len(payload))
                IN  IF name_length > Len(after) THEN Panic(rest)
                    ELSE LET name_bytes == SubSeq(after, 1, name_length)
                             content == SubSeq(after, name_length + 1, Len(after))
                         IN  IF from_utf8_ok(name_bytes) /\ from_utf8_ok(content)
                             THEN Decoded(ChatMessage(name_bytes, content, timestamp), rest)
                             ELSE DecodeError(rest)
      [] msg_type = 2 ->
           IF from_utf8_ok(payload) THEN Decoded(JoinMessage(payload), rest)
           ELSE DecodeError(rest)
      [] msg_type = 3 -> Decoded(HeartbeatMessage, rest)
      [] msg_type = 4 ->
           IF from_utf8_ok(payload) THEN Decoded(ErrorMessage(payload), rest)
           ELSE DecodeError(rest)
      [] OTHER -> DecodeError(rest)

\* faulty variant: the 5 header bytes are taken off the buffer before the
\* payload is known to be there
decode_eager_header(src) ==
    IF Len(src) < 5 THEN Incomplete(src)
    ELSE LET length == get_u32(SubSeq(src, 2, 5))
         IN  IF Len(src) < 5 + length THEN Incomplete(SubSeq(src, 6, Len(src)))
             ELSE decode_payload(src[1], SubSeq(src, 6, 5 + length),
                                 SubSeq(src, 6 + length, Len(src)))

\* McsCodec::decode: the result and what is left of src
decode(src) ==
    IF Len(src) < 5 THEN Incomplete(src)
    ELSE LET length == get_u32(SubSeq(src, 2, 5))
         IN  IF Len(src) < 5 + length THEN Incomplete(src)
             ELSE decode_payload(src[1], SubSeq(src, 6, 5 + length),
                                 SubSeq(src, 6 + length, Len(src)))

\* the next bytes of the stream arrive and are appended to the buffer
Receive ==
    /\ wire # <<>>
    /\ buf' = buf \o Head(wire)
    /\ wire' = Tail(wire)
    /\ UNCHANGED <<extvars, lbvars, memvars, busvars, chatvars, rows, history, sent, decoded>>

\* one decode call on the buffer; after 'incomplete' the next call waits for
\* more bytes, and the reading task makes no call after an error or a panic
Decode ==
    /\ IF decoded = <<>> THEN TRUE
       ELSE /\ decoded[Len(decoded)].status \in {"ok", "incomplete"}
            /\ \/ decoded[Len(decoded)].status # "incomplete"
               \/ decoded[Len(decoded)].len # Len(buf)
    /\ LET r == decode(buf)
       IN  /\ decoded' = Append(decoded,
                            [status |-> r.status, msg |-> r.msg, len |-> Len(buf),
                             consumed |-> Len(buf) - Len(r.rest)])
           /\ buf' = r.rest
    /\ UNCHANGED <<extvars, lbvars, memvars, busvars, chatvars, rows, history, sent, wire>>

(***************************************************************************)
(* In-memory ChatServer (server/src/state.rs)                              *)
(***************************************************************************)

\* register_user: `name.len() < 3`
MIN_NAME_LEN == 3

\* spawn_reaper: interval(Duration::from_secs(10)), in milliseconds
REAPER_PERIOD_MS == 10000

\* spawn_reaper: `as_secs() > 30`
REAPER_TIMEOUT_S == 30

\* the instants at which calls are made, as milliseconds left to the reaper's
\* next tick: at a tick, half a second after one and half a second before one;
\* and the age after which an entry only gets older
HalfSecond == 1000 \div 2
Instants == {0, HalfSecond, REAPER_PERIOD_MS - HalfSecond}
AgeCap == (REAPER_TIMEOUT_S + 1) * 1000

\* the names register_user is called with, as UTF-8 bytes: "u", the two
\* characters "éé", "server", "client" and "us1", "us2", ...
SERVER_NAME == <<115, 101, 114, 118, 101, 114>>
CLIENT_NAME == <<99, 108, 105, 101, 110, 116>>
MemName ==
    {<<117>>, <<195, 169, 195, 169>>, SERVER_NAME, CLIENT_NAME}
        \cup {<<117, 115, 48 + n>> : n \in 1..NumNames}

\* the writers of the connections that register
Writer == 1..NumWriters

\* the number of chars of a str: the bytes that are no continuation bytes
Characters(name) == Len(SelectSeq(name, LAMBDA b : b \notin 128..191))

\* HashMap::contains_key / insert / remove on active_users
contains_key(users_map, name) == \E e \in users_map : e.name = name
insert(users_map, name, writer) ==
    {e \in users_map : e.name # name} \cup {[name |-> name, writer |-> writer, age |-> 0]}
remove(users_map, name) == {e \in users_map : e.name # name}

\* faulty variant: no contains_key check, the entry of a connected user is
\* replaced
register_user_overwrites(users_map, name, writer) ==
    IF Len(name) < MIN_NAME_LEN
    THEN [ok |-> FALSE, users |-> users_map]
    ELSE IF name = SERVER_NAME \/ name = CLIENT_NAME
         THEN [ok |-> FALSE, users |-> users_map]
         ELSE [ok |-> TRUE, users |-> insert(users_map, name, writer)]

\* ChatServer::register_user: Err("Username too short"), Err("Username taken")
\* or the insert with last_seen: Instant::now()
register_user(users_map, name, writer) ==
    IF Len(name) < MIN_NAME_LEN
    THEN [ok |-> FALSE, users |-> users_map]
    ELSE IF contains_key(users_map, name) \/ name = SERVER_NAME \/ name = CLIENT_NAME
         THEN [ok |-> FALSE, users |-> users_map]
         ELSE [ok |-> TRUE, users |-> insert(users_map, name, writer)]

\* ChatServer::remove_user
remove_user(users_map, name) == remove(users_map, name)

\* ChatServer::heartbeat: last_seen = Instant::now() and true, or false
heartbeat(users_map, name) ==
    IF contains_key(users_map, name)
    THEN [ok |-> TRUE,
          users |-> {IF e.name = name THEN [e EXCEPT !.age = 0] ELSE e : e \in users_map}]
    ELSE [ok |-> FALSE, users |-> users_map]

Max(S) == CHOOSE x \in S : \A y \in S : y <= x

\* Duration::as_secs: whole seconds, the fraction dropped
as_secs(ms) == ms \div 1000

\* faulty variant: the age is compared without dropping the fraction
timed_out_exact(age) == age > REAPER_TIMEOUT_S * 1000

\* spawn_reaper's retain closure: `now.duration_since(last_seen).as_secs() > 30`
timed_out(age) == as_secs(age) > REAPER_TIMEOUT_S

\* ChatPacket::new_server_packet(format!("{} timed out.", name))
TimedOutPacket(name) == [sender |-> SERVER_NAME, timed_out |-> name]

NoResult == [op |-> "", name |-> <<>>, ok |-> FALSE]

\* the orders in which retain can visit a set of entries
RECURSIVE Orders(_)
Orders(S) ==
    IF S = {} THEN {<<>>}
    ELSE UNION {{<<e.name>> \o o : o \in Orders(S \ {e})} : e \in S}

\* a connection calls register_user(name, writer)
MemRegister ==
    /\ Len(chat_history) < MaxTimeouts
    /\ \E name \in MemName, writer \in Writer :
         /\ \A e \in active_users : e.writer # writer
         /\ LET r == register_user(active_users, name, writer)
            IN  /\ active_users' = r.users
                /\ result' = [op |-> "register_user", name |-> name, ok |-> r.ok]
    /\ UNCHANGED <<extvars, lbvars, chatvars, purevars, busvars, chat_history, reaper>>

\* remove_user(name)
MemRemove ==
    /\ \E name \in MemName :
         /\ active_users' = remove_user(active_users, name)
         /\ result' = [op |-> "remove_user", name |-> name,
                       ok |-> contains_key(active_users, name)]
    /\ UNCHANGED <<extvars, lbvars, chatvars, purevars, busvars, chat_history, reaper>>

\* heartbeat(name)
MemHeartbeat ==
    /\ \E name \in MemName :
         LET r == heartbeat(active_users, name)
         IN  /\ active_users' = r.users
             /\ result' = [op |-> "heartbeat", name |-> name, ok |-> r.ok]
    /\ UNCHANGED <<extvars, lbvars, chatvars, purevars, busvars, chat_history, reaper>>

\* the reaper's tick: retain on active_users under the write lock
ReaperPass ==
    /\ reaper.until = 0 /\ reaper.timed_out_users = <<>>
    /\ active_users' = {e \in active_users : ~timed_out(e.age)}
    /\ \E o \in Orders({e \in active_users : timed_out(e.age)}) :
         reaper' = [until |-> REAPER_PERIOD_MS, timed_out_users |-> o]
    /\ result' = NoResult
    /\ UNCHANGED <<extvars, lbvars, chatvars, purevars, busvars, chat_history>>

\* the reaper's loop over timed_out_users: broadcast of '<name> timed out.'
ReaperBroadcast ==
    /\ reaper.timed_out_users # <<>>
    /\ chat_history' = Append(chat_history, TimedOutPacket(Head(reaper.timed_out_users)))
    /\ reaper' = [reaper EXCEPT !.timed_out_users = Tail(@)]
    /\ result' = NoResult
    /\ UNCHANGED <<extvars, lbvars, chatvars, purevars, busvars, active_users>>

\* time passes up to the next instant; the reaper's tick is not overrun
MemElapse ==
    /\ reaper.until > 0 /\ reaper.timed_out_users = <<>>
    /\ LET d == reaper.until - Max({i \in Instants : i < reaper.until})
       IN  /\ reaper' = [reaper EXCEPT !.until = @ - d]
           /\ active_users' = {[e EXCEPT !.age = IF @ + d > AgeCap THEN AgeCap
                                                 ELSE @ + d] : e \in active_users}
    /\ result' = NoResult
    /\ UNCHANGED <<extvars, lbvars, chatvars, purevars, busvars, chat_history>>

\* ChatServer::new, and the reaper spawned: its first tick is immediate
MemInit ==
    /\ active_users = {}
    /\ chat_history = <<>>
    /\ reaper = [until |-> 0, timed_out_users |-> <<>>]
    /\ result = NoResult

NextMem ==
    \/ MemRegister
    \/ MemRemove
    \/ MemHeartbeat
    \/ ReaperPass
    \/ ReaperBroadcast
    \/ MemElapse

(***************************************************************************)
(* In-process bus and the Live loop's select! (service/state.rs,           *)
(* transport/session.rs)                                                   *)
(***************************************************************************)

\* AppState::new: broadcast::channel(100)
BUS_CAPACITY == 100

\* a session in run's loop: pc is "select" at the select!, "handling" inside
\* handle_client_message, "closed" after a break; next is the number of the
\* message rx reads next, lagged says that rx.recv() returned Lagged in this
\* select!, written and lost tell of the messages written to the client and
\* skipped, inbox holds the frames received and not yet read, numbered in
\* arrival order, handled and replied the last frame read and answered
Subscribed ==
    [pc |-> "select", next |-> 1, lagged |-> FALSE, written |-> 0, lost |-> FALSE,
     inbox |-> <<>>, arrived |-> 0, handled |-> 0, replied |-> 0]

Broken ==
    [pc |-> "closed", next |-> 0, lagged |-> FALSE, written |-> 0, lost |-> FALSE,
     inbox |-> <<>>, arrived |-> 0, handled |-> 0, replied |-> 0]

\* the oldest message the channel still holds after tail sends
oldest(tail) == IF tail > BUS_CAPACITY THEN tail - BUS_CAPACITY + 1 ELSE 1

\* faulty variant: a bounded queue whose sender waits for the slowest receiver
can_send_bounded(tail, receivers) ==
    \A s \in DOMAIN receivers :
        receivers[s].pc = "closed" \/ tail - receivers[s].next + 1 < BUS_CAPACITY

\* Sender::send as the subscription task calls it, `let _ = sender.send(..)`:
\* no await, the oldest message is overwritten when the channel is full
can_send(tail, receivers) == TRUE

\* Receiver::recv: nothing to read yet, Err(Lagged) with the cursor moved to
\* the oldest message held, or the next message
recv(tail, next) ==
    IF next > tail THEN [status |-> "pending", next |-> next]
    ELSE IF next < oldest(tail) THEN [status |-> "lagged", next |-> oldest(tail)]
    ELSE [status |-> "ok", next |-> next + 1]

\* faulty variant: an Err of rx.recv() ends the loop
after_recv_err_breaks(status, write_ok) ==
    IF status = "ok" /\ write_ok THEN "select" ELSE "closed"

\* run, the branch `Ok(msg) = self.rx.recv()`: an Err does not match and
\* disables the branch, a failed writer.send(msg) breaks the loop
after_recv(status, write_ok) ==
    IF status = "ok" /\ ~write_ok THEN "closed" ELSE "select"

\* faulty variant: the newest frame received is read first
reader_next_newest(inbox) ==
    [frame |-> inbox[Len(inbox)], rest |-> SubSeq(inbox, 1, Len(inbox) - 1)]

\* self.reader.next(): the frames of the connection in the order received
reader_next(inbox) == [frame |-> Head(inbox), rest |-> Tail(inbox)]

\* the subscription task pushes a message of channel mcs:chat into the bus
BusSend(limit) ==
    /\ bus < limit
    /\ can_send(bus, rxs)
    /\ bus' = bus + 1
    /\ UNCHANGED <<extvars, lbvars, chatvars, purevars, memvars, rxs>>

\* run: the branch of rx.recv() completes
RxRecv(s) ==
    /\ rxs[s].pc = "select" /\ ~rxs[s].lagged
    /\ LET r == recv(bus, rxs[s].next)
       IN  /\ r.status # "pending"
           /\ \E write_ok \in BOOLEAN :
                rxs' = [rxs EXCEPT ![s] =
                   IF after_recv(r.status, write_ok) = "closed" THEN Broken
                   ELSE IF r.status = "lagged"
                        THEN [@ EXCEPT !.next = r.next, !.lagged = TRUE, !.lost = TRUE]
                        ELSE [@ EXCEPT !.next = r.next, !.written = rxs[s].next]]
    /\ UNCHANGED <<extvars, lbvars, chatvars, purevars, memvars, bus>>

\* run: the branch of interval.tick() completes; a failed refresh_session
\* breaks the loop, otherwise the loop enters select! again
RxTick(s) ==
    /\ rxs[s].pc = "select"
    /\ \E redis_ok \in BOOLEAN :
         rxs' = [rxs EXCEPT ![s] = IF redis_ok THEN [@ EXCEPT !.lagged = FALSE]
                                   ELSE Broken]
    /\ UNCHANGED <<extvars, lbvars, chatvars, purevars, memvars, bus>>

\* a frame of the client arrives on the connection
FrameArrive(s) ==
    /\ rxs[s].pc # "closed"
    /\ rxs[s].arrived < MaxFrames
    /\ rxs' = [rxs EXCEPT ![s].arrived = @ + 1,
                          ![s].inbox = Append(@, rxs[s].arrived + 1)]
    /\ UNCHANGED <<extvars, lbvars, chatvars, purevars, memvars, bus>>

\* run: the branch of self.reader.next() completes with a frame and
\* handle_client_message is entered
RxFrame(s) ==
    /\ rxs[s].pc = "select"
    /\ rxs[s].inbox # <<>>
    /\ rxs' = [rxs EXCEPT ![s].pc = "handling",
                          ![s].lagged = FALSE,
                          ![s].handled = reader_next(rxs[s].inbox).frame,
                          ![s].inbox = reader_next(rxs[s].inbox).rest]
    /\ UNCHANGED <<extvars, lbvars, chatvars, purevars, memvars, bus>>

\* handle_client_message returns after its service call and its reply, if
\* any, and the loop enters select! again
RxReply(s) ==
    /\ rxs[s].pc = "handling"
    /\ rxs' = [rxs EXCEPT ![s].pc = "select", ![s].replied = rxs[s].handled]
    /\ UNCHANGED <<extvars, lbvars, chatvars, purevars, memvars, bus>>

\* AppState::new and a ClientSession::new, with its state.subscribe(), for
\* every connection
BusInit ==
    /\ bus = 0
    /\ rxs = [s \in Session |-> Subscribed]

\* sessions that send nothing, with a bus that carries more than it holds
NextBus ==
    \/ BusSend(BUS_CAPACITY + MaxLag)
    \/ \E s \in Session : RxRecv(s)
    \/ \E s \in Session : RxTick(s)

\* sessions with inbound frames and a few bus messages
NextSession ==
    \/ BusSend(MaxBusMessages)
    \/ \E s \in Session : RxRecv(s)
    \/ \E s \in Session : RxTick(s)
    \/ \E s \in Session : FrameArrive(s)
    \/ \E s \in Session : RxFrame(s)
    \/ \E s \in Session : RxReply(s)

(***************************************************************************)
(* Whose presence key it is                                                *)
(***************************************************************************)

\* no SET NX has created a key yet
KeyInit == owner = [u \in Name |-> None]

\* the key of a username exists and it was this session's SET NX that made it
OwnsKey(s, u) == presence[u] > 0 /\ owner[u] = s

\* no client is paginating
PageInit == pager = [cursor |-> 0, messages |-> <<>>, empty |-> TRUE]


(***************************************************************************)
(* A client paginating backwards through the history                       *)
(***************************************************************************)

\* App::push_history_messages: the packets of a HistoryResponse go to the
\* front of chat.messages, their order kept
push_history_messages(messages, hist) == hist \o messages

\* render_message_list: history_request_timestamp is the timestamp of the first
\* packet of chat.messages, if there is one
history_request_timestamp(messages, cursor) ==
    IF messages = <<>> THEN cursor ELSE messages[1]

\* a client that has no message yet and asks from above every timestamp
FirstPage == [cursor |-> MaxTimestamp + 1, messages |-> <<>>, empty |-> FALSE]

\* App::get_history sends HistoryRequest(timestamp), the session answers with
\* get_history(timestamp), the client pushes the response and takes its next
\* cursor from the first message it now holds
PageRequest ==
    /\ ~pager.empty
    /\ LET hist == get_recent_messages(rows, pager.cursor)
           messages == push_history_messages(pager.messages, hist)
       IN  pager' = [cursor |-> history_request_timestamp(messages, pager.cursor),
                     messages |-> messages,
                     empty |-> hist = <<>>]
    /\ UNCHANGED <<lbvars, chatvars, purevars, memvars, busvars, keyvars, quotavars,
                   streamvars, racevars>>

(***************************************************************************)
(* In-memory ChatServer: register_user and broadcast running concurrently  *)
(***************************************************************************)

\* the packets broadcast concurrently with the registrations
Packet == 1..NumBroadcasts

\* no call has started; an empty history, no user, the lock of active_users
\* free, nothing written to any client
RaceInit ==
    /\ calls = [reg |-> [w \in Writer |-> "start"], bc |-> [m \in Packet |-> "start"]]
    /\ mem = [chat_history |-> <<>>, active_users |-> {}, lock |-> "",
              got |-> [w \in Writer |-> <<>>]]

\* register_user: `self.active_users.write().await`; the guard lives to the
\* end of the call; the name is long enough and free, 'Connected to' is sent
RegLock(w) ==
    /\ calls.reg[w] = "start"
    /\ mem.lock = ""
    /\ mem' = [mem EXCEPT !.lock = "register_user"]
    /\ calls' = [calls EXCEPT !.reg[w] = "locked"]
    /\ UNCHANGED <<lbvars, chatvars, purevars, memvars, busvars, keyvars, quotavars,
                   streamvars, pagevars>>

\* register_user: `self.chat_history.read().await` and one Chat frame for
\* each packet of the history
RegReplay(w) ==
    /\ calls.reg[w] = "locked"
    /\ mem' = [mem EXCEPT !.got[w] = @ \o mem.chat_history]
    /\ calls' = [calls EXCEPT !.reg[w] = "replayed"]
    /\ UNCHANGED <<lbvars, chatvars, purevars, memvars, busvars, keyvars, quotavars,
                   streamvars, pagevars>>

\* register_user: users.insert, Ok(()), the guard is dropped
RegInsert(w) ==
    /\ calls.reg[w] = "replayed"
    /\ mem' = [mem EXCEPT !.active_users = @ \cup {w}, !.lock = ""]
    /\ calls' = [calls EXCEPT !.reg[w] = "done"]
    /\ UNCHANGED <<lbvars, chatvars, purevars, memvars, busvars, keyvars, quotavars,
                   streamvars, pagevars>>

\* broadcast: `self.chat_history.write().await.push(msg.clone())`
BcPush(m) ==
    /\ calls.bc[m] = "start"
    /\ mem' = [mem EXCEPT !.chat_history = Append(@, m)]
    /\ calls' = [calls EXCEPT !.bc[m] = "pushed"]
    /\ UNCHANGED <<lbvars, chatvars, purevars, memvars, busvars, keyvars, quotavars,
                   streamvars, pagevars>>

\* broadcast: `self.active_users.write().await`
BcLock(m) ==
    /\ calls.bc[m] = "pushed"
    /\ mem.lock = ""
    /\ mem' = [mem EXCEPT !.lock = "broadcast"]
    /\ calls' = [calls EXCEPT !.bc[m] = "locked"]
    /\ UNCHANGED <<lbvars, chatvars, purevars, memvars, busvars, keyvars, quotavars,
                   streamvars, pagevars>>

\* broadcast: a Chat frame of msg to the writer of every entry of
\* active_users, join_all, the guard is dropped
BcSend(m) ==
    /\ calls.bc[m] = "locked"
    /\ mem' = [mem EXCEPT !.got = [w \in Writer |->
                                      IF w \in mem.active_users
                                      THEN Append(mem.got[w], m) ELSE mem.got[w]],
                          !.lock = ""]
    /\ calls' = [calls EXCEPT !.bc[m] = "done"]
    /\ UNCHANGED <<lbvars, chatvars, purevars, memvars, busvars, keyvars, quotavars,
                   streamvars, pagevars>>

NextRace ==
    \/ \E w \in Writer : RegLock(w)
    \/ \E w \in Writer : RegReplay(w)
    \/ \E w \in Writer : RegInsert(w)
    \/ \E m \in Packet : BcPush(m)
    \/ \E m \in Packet : BcLock(m)
    \/ \E m \in Packet : BcSend(m)

(***************************************************************************)
(* Load balancer: RateLimitedStream over the shared bandwidth limiter      *)
(***************************************************************************)

\* Option<Pin<Box<Sleep>>>: None, or a sleep with the time left to its deadline
NoSleep == [armed |-> FALSE, left |-> 0]
Sleep(wait) == [armed |-> TRUE, left |-> wait]

\* what the last poll_read did: whether it polled the inner stream, the n of
\* its check_n call (0: no call), the limiter's answer and computed wait,
\* pending_bytes after poll_pending_bytes, and what it returned
NoPoll == [inner |-> FALSE, requested |-> 0, outcome |-> "", wait |-> 0,
           debt |-> 0, ret |-> "", n |-> 0]

\* RateLimitedStream::new
NewStream == [pending_bytes |-> 0, sleep |-> NoSleep, last |-> NoPoll]

\* RateLimiter::check_n on a limiter with `cells` cells left: n above the
\* burst size can never pass (InsufficientCapacity), n cells are taken if they
\* are there, and else NotUntil tells how long the missing cells take
check_n(cells, n) ==
    IF n > BurstCells THEN [outcome |-> "insufficient", cells |-> cells, wait |-> 0]
    ELSE IF n <= cells THEN [outcome |-> "ok", cells |-> cells - n, wait |-> 0]
    ELSE [outcome |-> "not_until", cells |-> cells, wait |-> n - cells]

\* faulty variant: the debt is dropped without asking the limiter
poll_pending_bytes_unchecked(pending_bytes, cells, elapsed) ==
    [ready |-> TRUE, pending_bytes |-> 0, cells |-> cells, sleep |-> NoSleep,
     requested |-> 0, outcome |-> "", wait |-> 0]

\* RateLimitedStream::poll_pending_bytes: no debt, Ready; Ok(Ok) or
\* Err(InsufficientCapacity), the debt is cleared, Ready; Ok(Err(not_until)),
\* a sleep for wait_time_from(now), Ready if that sleep is ready at once (the
\* wait had elapsed when the clock was read) and else stored, Pending
poll_pending_bytes(pending_bytes, cells, elapsed) ==
    IF pending_bytes = 0
    THEN [ready |-> TRUE, pending_bytes |-> 0, cells |-> cells, sleep |-> NoSleep,
          requested |-> 0, outcome |-> "", wait |-> 0]
    ELSE LET c == check_n(cells, pending_bytes)
         IN  IF c.outcome = "not_until"
             THEN IF elapsed
                  THEN [ready |-> TRUE, pending_bytes |-> pending_bytes,
                        cells |-> cells, sleep |-> NoSleep,
                        requested |-> pending_bytes, outcome |-> c.outcome, wait |-> 0]
                  ELSE [ready |-> FALSE, pending_bytes |-> pending_bytes,
                        cells |-> cells, sleep |-> Sleep(c.wait),
                        requested |-> pending_bytes, outcome |-> c.outcome,
                        wait |-> c.wait]
             ELSE [ready |-> TRUE, pending_bytes |-> 0, cells |-> c.cells,
                   sleep |-> NoSleep, requested |-> pending_bytes,
                   outcome |-> c.outcome, wait |-> 0]

\* faulty variant: a stored sleep is dropped without being awaited
sleep_ready_always(sleep) == TRUE

\* poll_read: `ready!(sleep.as_mut().poll(cx))` on a stored sleep
sleep_ready(sleep) == sleep.left = 0

\* what the inner stream's poll_read can give: Pending, or Ready with 0 (EOF)
\* up to MaxRead bytes filled
InnerPoll == {[ready |-> FALSE, n |-> 0]} \cup {[ready |-> TRUE, n |-> k] : k \in 0..MaxRead}

\* <RateLimitedStream as AsyncRead>::poll_read
PollRead ==
    /\ stream.pending_bytes <= MaxPending
    /\ IF stream.sleep.armed /\ ~sleep_ready(stream.sleep)
       THEN /\ stream' = [stream EXCEPT !.last = [NoPoll EXCEPT !.ret = "Pending",
                                                  !.debt = stream.pending_bytes]]
            /\ UNCHANGED limiter
       ELSE \E elapsed \in BOOLEAN :
              LET p == poll_pending_bytes(stream.pending_bytes, limiter, elapsed)
              IN  IF ~p.ready
                  THEN /\ stream' = [pending_bytes |-> p.pending_bytes,
                                     sleep |-> p.sleep,
                                     last |-> [inner |-> FALSE, requested |-> p.requested,
                                               outcome |-> p.outcome, wait |-> p.wait,
                                               debt |-> p.pending_bytes,
                                               ret |-> "Pending", n |-> 0]]
                       /\ limiter' = p.cells
                  ELSE \E r \in InnerPoll :
                         /\ stream' = [pending_bytes |->
                                           IF r.n > 0 THEN p.pending_bytes + r.n
                                           ELSE p.pending_bytes,
                                       sleep |-> p.sleep,
                                       last |-> [inner |-> TRUE, requested |-> p.requested,
                                                 outcome |-> p.outcome, wait |-> p.wait,
                                                 debt |-> p.pending_bytes,
                                                 ret |-> IF r.ready THEN "Ready"
                                                         ELSE "Pending",
                                                 n |-> r.n]]
                         /\ limiter' = p.cells
    /\ UNCHANGED <<lbvars, chatvars, purevars, memvars, busvars, keyvars, quotavars,
                   racevars, pagevars>>

\* the time one cell takes to come back passes
StreamTick ==
    /\ limiter' = IF limiter < BurstCells THEN limiter + 1 ELSE limiter
    /\ stream' = [stream EXCEPT !.sleep.left = IF @ > 0 THEN @ - 1 ELSE 0]
    /\ UNCHANGED <<lbvars, chatvars, purevars, memvars, busvars, keyvars, quotavars,
                   racevars, pagevars>>

\* another stream of the same ip takes a cell of the shared limiter
OtherStreamTakes ==
    /\ limiter > 0
    /\ limiter' = limiter - 1
    /\ UNCHANGED stream
    /\ UNCHANGED <<lbvars, chatvars, purevars, memvars, busvars, keyvars, quotavars,
                   racevars, pagevars>>

\* a new stream on a limiter that has its whole burst
StreamInit == stream = NewStream /\ limiter = BurstCells

NextStream == PollRead \/ StreamTick \/ OtherStreamTakes

(***************************************************************************)
(* Load balancer: per-ip quota records, the accept loop, the cleanup task  *)
(***************************************************************************)

\* `Quota::per_second(5)` of the connection limiter
CONN_PER_SECOND == 5

\* `let expiration = 1000 * 60 * 5` of the cleanup task
EXPIRATION_MS == 1000 * 60 * 5

\* source addresses of the clients
Ip == 1..NumIps

\* the readings of SystemTime the model tells apart: a start, a millisecond
\* later, and the milliseconds around the start's expiration
ClockInstants == {0, 1, EXPIRATION_MS - 1, EXPIRATION_MS, EXPIRATION_MS + 1}

\* ClientState::new: both limiters full, last_seen_ms = now_ms()
NewClientState(now) == [last_seen_ms |-> now, cells |-> CONN_PER_SECOND]

\* LoadBalancerState::add_client: `entry(ip).or_insert_with(..).clone()`
add_client(cl, recs, ip, now) ==
    IF cl[ip] # None
    THEN [record |-> cl[ip], clients |-> cl, records |-> recs]
    ELSE [record |-> Len(recs) + 1,
          clients |-> [cl EXCEPT ![ip] = Len(recs) + 1],
          records |-> Append(recs, NewClientState(now))]

\* faulty variant: the accept does not stamp the record
update_seen_never(recs, r, now) == recs

\* ClientState::update_seen
update_seen(recs, r, now) == [recs EXCEPT ![r].last_seen_ms = now]

\* connection_limiter.check(): a cell is taken, or Err when none is left
check(recs, r) ==
    IF recs[r].cells > 0
    THEN [ok |-> TRUE, records |-> [recs EXCEPT ![r].cells = @ - 1]]
    ELSE [ok |-> FALSE, records |-> recs]

\* the retain closure of the cleanup task, `now - last_seen < expiration` on
\* u64: with last_seen above now the subtraction overflows, which panics in a
\* build with overflow checks and else wraps to 2^64 - (last_seen - now), a
\* number far above expiration
retain_client(now, last_seen) ==
    IF last_seen <= now
    THEN {[panicked |-> FALSE, keep |-> now - last_seen < EXPIRATION_MS]}
    ELSE {[panicked |-> TRUE, keep |-> TRUE], [panicked |-> FALSE, keep |-> FALSE]}

\* the accept loop before an accept, the cleanup task before its first tick
Accepting == [pc |-> "accept", ip |-> None, record |-> None, stamp |-> 0, verdict |-> ""]
Sleeping == [pc |-> "sleep", now |-> 0, todo |-> {}, passes |-> 0]
NoConn == [pc |-> "free", ip |-> None, record |-> None]

FreeConns == {c \in Task : conns[c].pc = "free" /\ tasks[c].pc = "idle"}

\* run: listener.accept() returns a connection of ip; add_client, update_seen
AcceptAdd(ip) ==
    /\ listener.pc = "accept"
    /\ FreeConns # {}
    /\ clients[ip] = None => Len(records) < MaxRecords
    /\ LET a == add_client(clients, records, ip, clock)
       IN  /\ clients' = a.clients
           /\ records' = update_seen(a.records, a.record, clock)
           /\ listener' = [pc |-> "check", ip |-> ip, record |-> a.record,
                            stamp |-> clock, verdict |-> ""]
    /\ UNCHANGED <<lbvars, chatvars, purevars, memvars, busvars, keyvars, streamvars,
                   racevars, pagevars, clock, cleanup, conns>>

\* run: connection_limiter.check(); Err: `continue`, the socket is dropped;
\* Ok: the connection's task is spawned and begins with the TLS handshake
AcceptCheck ==
    /\ listener.pc = "check"
    /\ LET r == check(records, listener.record)
           c == CHOOSE c \in FreeConns : \A d \in FreeConns : c <= d
       IN  /\ records' = r.records
           /\ listener' = [listener EXCEPT !.pc = "accept",
                               !.verdict = IF r.ok THEN "spawned" ELSE "refused"]
           /\ conns' = IF r.ok
                       THEN [conns EXCEPT ![c] = [pc |-> "tls", ip |-> listener.ip,
                                                  record |-> listener.record]]
                       ELSE conns
    /\ UNCHANGED <<lbvars, chatvars, purevars, memvars, busvars, keyvars, streamvars,
                   racevars, pagevars, clients, clock, cleanup>>

\* the spawned task: acceptor.accept; Err, the task ends; Ok, a
\* RateLimitedStream over the bandwidth_limiter of the task's ClientState, and
\* handle_connection up to its first await on the network
TlsAccept(c) ==
    /\ conns[c].pc = "tls"
    /\ \E tls_ok \in BOOLEAN :
         IF ~tls_ok
         THEN /\ conns' = [conns EXCEPT ![c] = NoConn]
              /\ UNCHANGED <<tasks, picks>>
         ELSE \E r \in next_backend(backends, iter) :
                /\ conns' = [conns EXCEPT ![c] =
                       IF r = None THEN NoConn ELSE [@ EXCEPT !.pc = "open"]]
                /\ tasks' = [tasks EXCEPT ![c] =
                       IF r = None THEN Idle ELSE [pc |-> "dial", backend_addr |-> r]]
                /\ picks' = Picked(r)
    /\ UNCHANGED <<chatvars, purevars, memvars, busvars, keyvars, streamvars,
                   racevars, pagevars, clients, records, clock, cleanup, listener,
                   backends, iter, discovery, health, last_check, ever_removed,
                   marked, served>>

\* handle_connection has returned: the task ends and its stream is dropped
ConnClose(c) ==
    /\ conns[c].pc = "open"
    /\ tasks[c].pc = "idle"
    /\ conns' = [conns EXCEPT ![c] = NoConn]
    /\ UNCHANGED <<lbvars, chatvars, purevars, memvars, busvars, keyvars, streamvars,
                   racevars, pagevars, clients, records, clock, cleanup, listener>>

\* the cleanup task: interval.tick() and `let now = ClientState::now_ms()`
CleanupStart ==
    /\ cleanup.pc = "sleep"
    /\ cleanup.passes < MaxPasses
    /\ cleanup' = [pc |-> "retain", now |-> clock, todo |-> Ip,
                   passes |-> cleanup.passes + 1]
    /\ UNCHANGED <<lbvars, chatvars, purevars, memvars, busvars, keyvars, streamvars,
                   racevars, pagevars, clients, records, clock, listener, conns>>

\* clients.retain reaches the entry of an ip, if there is one; a panic of
\* the closure ends the cleanup task
CleanupVisit(ip) ==
    /\ cleanup.pc = "retain"
    /\ ip \in cleanup.todo
    /\ IF clients[ip] = None
       THEN /\ UNCHANGED clients
            /\ cleanup' = [cleanup EXCEPT !.todo = @ \ {ip},
                               !.pc = IF cleanup.todo = {ip} THEN "sleep" ELSE "retain"]
       ELSE \E o \in retain_client(cleanup.now, records[clients[ip]].last_seen_ms) :
              /\ clients' = IF o.keep THEN clients ELSE [clients EXCEPT ![ip] = None]
              /\ cleanup' = IF o.panicked
                            THEN [cleanup EXCEPT !.pc = "dead", !.todo = {}]
                            ELSE [cleanup EXCEPT !.todo = @ \ {ip},
                                      !.pc = IF cleanup.todo = {ip} THEN "sleep"
                                             ELSE "retain"]
    /\ UNCHANGED <<lbvars, chatvars, purevars, memvars, busvars, keyvars, streamvars,
                   racevars, pagevars, records, clock, listener, conns>>

\* the cells a connection limiter has after ms more milliseconds: one cell
\* back every 1000 / 5 ms, up to 5
replenish(cells, ms) ==
    IF cells + ms \div (1000 \div CONN_PER_SECOND) < CONN_PER_SECOND
    THEN cells + ms \div (1000 \div CONN_PER_SECOND) ELSE CONN_PER_SECOND

\* time passes to the next instant
QuotaElapse ==
    /\ \E t \in ClockInstants :
         /\ t > clock
         /\ \A u \in ClockInstants : u > clock => t <= u
         /\ clock' = t
         /\ records' = [i \in 1..Len(records) |->
                           [records[i] EXCEPT !.cells = replenish(@, t - clock)]]
    /\ UNCHANGED <<lbvars, chatvars, purevars, memvars, busvars, keyvars, streamvars,
                   racevars, pagevars, clients, cleanup, listener, conns>>

\* LoadBalancerState::new: no client; run: the listener bound, the cleanup
\* task spawned
QuotaInit ==
    /\ clients = [ip \in Ip |-> None]
    /\ records = <<>>
    /\ clock = 0
    /\ cleanup = Sleeping
    /\ listener = Accepting
    /\ conns = [c \in Task |-> NoConn]

NextQuota ==
    \/ \E ip \in Ip : AcceptAdd(ip)
    \/ AcceptCheck
    \/ \E c \in Task : TlsAccept(c)
    \/ \E c \in Task : ConnClose(c)
    \/ \E t \in Task : HandleDial(t)
    \/ \E t \in Task : HandleCopyEnd(t)
    \/ CleanupStart
    \/ \E ip \in Ip : CleanupVisit(ip)
    \/ QuotaElapse

\* no session owns a key, no connection accepted, no call under way
ExtInit == KeyInit /\ QuotaInit /\ StreamInit /\ RaceInit /\ PageInit

\* LoadBalancerState::new and the tasks run() spawns
LbInit ==
    /\ backends = <<>>
    /\ iter = <<>>
    /\ tasks = [t \in Task |-> Idle]
    /\ discovery = [to_add |-> {}, to_remove |-> {}, redis_backends |-> {}]
    /\ health = {}
    /\ last_check = [a \in Addr |-> "none"]
    /\ ever_removed = {}
    /\ marked = {}
    /\ served = {}
    /\ picks = <<>>

\* no message stored, no get_recent_messages call yet
HistoryInit ==
    /\ rows = <<>>
    /\ history = <<>>

\* nothing encoded, nothing on the wire
CodecInit ==
    /\ sent = <<>>
    /\ wire = <<>>
    /\ buf = <<>>
    /\ decoded = <<>>

PureInit == HistoryInit /\ CodecInit

Init == LbInit /\ ChatInit /\ PureInit /\ MemInit /\ BusInit /\ ExtInit

Next ==
    \/ \E t \in Task : HandleStart(t)
    \/ \E t \in Task : HandleDial(t)
    \/ \E t \in Task : HandleCopyEnd(t)
    \/ DiscoveryTick
    \/ DiscoveryAdd
    \/ DiscoveryRemove
    \/ HealthTick
    \/ HealthCheck

Spec == Init /\ [][Next]_vars

\* the chat servers of the cluster with their shared directory and stores
SpecChat == Init /\ [][NextChat]_vars

\* the load balancer with its runtime shutting down: futures of in-flight
\* handle_connection tasks are dropped
NextCancel ==
    \/ Next
    \/ \E t \in Task : HandleCancel(t)

SpecCancel == Init /\ [][NextCancel]_vars

(***************************************************************************)
(* Least-connections routing under concurrent handle_connection tasks      *)
(***************************************************************************)

\* every backend registered, healthy and without connections
InitLeast ==
    /\ backends = [a \in Addr |-> BackendState(0, TRUE)]
    /\ iter \in Perms(Addr)
    /\ tasks = [t \in Task |-> Idle]
    /\ discovery = [to_add |-> {}, to_remove |-> {}, redis_backends |-> {}]
    /\ health = {}
    /\ last_check = [a \in Addr |-> "none"]
    /\ ever_removed = {}
    /\ marked = {}
    /\ served = {}
    /\ picks = <<>>
    /\ ChatInit /\ PureInit /\ MemInit /\ BusInit /\ ExtInit

\* the tasks of the accepted connections, the backend set left alone
NextLeast ==
    \/ \E t \in Task : HandleStart(t)
    \/ \E t \in Task : HandleDial(t)
    \/ \E t \in Task : HandleCopyEnd(t)

SpecLeast == InitLeast /\ [][NextLeast]_vars

\* a client starts to paginate on a table with up to HISTORY_LIMIT rows of
\* each timestamp
InitPage ==
    /\ LbInit /\ ChatInit /\ CodecInit /\ MemInit /\ BusInit
    /\ KeyInit /\ QuotaInit /\ StreamInit /\ RaceInit
    /\ rows \in [Timestamp -> RowCount]
    /\ history = <<>>
    /\ pager = FirstPage

NextPage == PageRequest

SpecPage == InitPage /\ [][NextPage]_vars

\* the in-memory ChatServer under concurrent register_user and broadcast calls
SpecRace == Init /\ [][NextRace]_vars

\* the steps a chat server takes by itself: awaits on its stores that
\* return, its ticker, the passing of time; a frame or an EOF from the client
\* is no such step
ServerStep ==
    \/ \E s \in Session : AuthVerify(s)
    \/ \E s \in Session : AuthCreate(s)
    \/ \E s \in Session : AuthVerifyAgain(s)
    \/ \E s \in Session : AuthSetOnline(s)
    \/ \E s \in Session : JoinBroadcast(s)
    \/ \E s \in Session : JoinHistory(s)
    \/ \E s \in Session : ChatBroadcast(s)
    \/ \E s \in Session : LiveTick(s)
    \/ \E s \in Session : Disconnect(s)
    \/ \E s \in Session : LeftBroadcast(s)
    \/ Elapse

\* the chat servers, where whatever a server can do by itself is done in
\* the end; clients send when and if they like
SpecChatFair == Init /\ [][NextChat]_vars /\ WF_vars(ServerStep)

\* one RateLimitedStream polled again and again while time passes and other
\* streams draw on the same limiter
SpecStream == Init /\ [][NextStream]_vars

\* the accept loop, the connection tasks and the cleanup task of a load
\* balancer whose backends are registered and healthy
InitQuota == InitLeast

SpecQuota == InitQuota /\ [][NextQuota]_vars

\* next_backend applied to every snapshot of up to PickBackends backends
InitPick ==
    /\ \E S \in SUBSET PickAddr :
         /\ backends \in [S -> {BackendState(ac, h) : ac \in 0..MaxActive, h \in BOOLEAN}]
         /\ iter \in Perms(S)
    /\ tasks = [t \in Task |-> Idle]
    /\ discovery = [to_add |-> {}, to_remove |-> {}, redis_backends |-> {}]
    /\ health = {}
    /\ last_check = [a \in Addr |-> "none"]
    /\ ever_removed = {}
    /\ marked = {}
    /\ served = {}
    /\ picks = <<>>
    /\ ChatInit
    /\ PureInit
    /\ MemInit /\ BusInit /\ ExtInit

\* one call of next_backend on the snapshot
PickCall ==
    /\ \E r \in next_backend(backends, iter) : picks' = Picked(r)
    /\ UNCHANGED <<extvars, chatvars, memvars, busvars, purevars, backends, iter, tasks, discovery, health, last_check, ever_removed,
                   marked, served>>

NextPick == PickCall

SpecPick == InitPick /\ [][NextPick]_vars

\* the tables get_recent_messages is applied to: up to HISTORY_LIMIT rows of
\* each timestamp, and the table of the 120 messages with timestamps 1..120
InitHistory ==
    /\ LbInit /\ ChatInit /\ CodecInit /\ MemInit /\ BusInit /\ ExtInit
    /\ \/ rows \in [Timestamp -> RowCount]
       \/ rows = [t \in 1..120 |-> 1]
    /\ history = <<>>

NextHistory == GetHistory

SpecHistory == InitHistory /\ [][NextHistory]_vars

\* the bytes of two encoded messages, cut in two at some offset
InitCodec ==
    /\ LbInit /\ ChatInit /\ HistoryInit /\ MemInit /\ BusInit /\ ExtInit
    /\ \E m1, m2 \in Message :
         /\ sent = <<m1, m2>>
         /\ \E k \in 0..Len(encode(m1) \o encode(m2)) :
              wire = <<SubSeq(encode(m1) \o encode(m2), 1, k),
                       SubSeq(encode(m1) \o encode(m2), k + 1,
                              Len(encode(m1) \o encode(m2)))>>
    /\ buf = <<>>
    /\ decoded = <<>>

NextCodec == Receive \/ Decode

SpecCodec == InitCodec /\ [][NextCodec]_vars

\* the bytes a peer may send: every short sequence of sample bytes (the
\* high byte of the length field below 128), and Chat frames whose sender length
\* field is any small number
ByteSample == {0, 1, 2, 97, 200}

ShortBytes ==
    {b \in UNION {[1..n -> ByteSample] : n \in 0..MaxFuzzLen} :
        Len(b) >= 2 => b[2] < 128}

FuzzChatFrames ==
    {<<1>> \o put_u32(12 + Len(t)) \o put_i64(0) \o put_u32(n) \o t :
        n \in 0..MaxFuzzLen, t \in Ascii(MaxStrLen + 1) \cup {<<200>>}}

InitBytes ==
    /\ LbInit /\ ChatInit /\ HistoryInit /\ MemInit /\ BusInit /\ ExtInit
    /\ sent = <<>>
    /\ \E b \in ShortBytes \cup FuzzChatFrames : wire = <<b>>
    /\ buf = <<>>
    /\ decoded = <<>>

NextBytes == Receive \/ Decode

\* the decoder on the bytes of an arbitrary peer
SpecBytes == InitBytes /\ [][NextBytes]_vars

\* the bus of one chat server filling past its capacity under idle sessions
SpecBus == Init /\ [][NextBus]_vars

\* the Live loops of the sessions of one chat server
SpecSession == Init /\ [][NextSession]_vars

\* the in-memory ChatServer with its reaper, time passing from one instant
\* to the next
SpecMem == Init /\ [][NextMem]_vars

(***************************************************************************)
(* Properties of the chat server                                           *)
(***************************************************************************)

\* C1: two sessions are never Live for the same username while that
\* username's presence key exists.
C1_OneLiveSessionPerUser ==
    \A s1, s2 \in Session :
        (/\ s1 # s2
         /\ IsLive(s1) /\ IsLive(s2)
         /\ sessions[s1].username = sessions[s2].username)
        => presence[sessions[s1].username] = 0

\* C10: every packet published on the bus was saved to the message store
\* before, and a packet whose save failed is not published.
C10_PublishedWereSaved == published \subseteq saved

\* the packets of the calls that are between construction and return
InFlight == {sessions[s].packet.id : s \in Session}

\* C10 witness: a user packet and a system packet have been published and
\* the call of another packet has returned with its save failed
C10_Witness ==
    /\ \E p \in published : p.sender # SERVER
    /\ \E p \in published : p.sender = SERVER
    /\ \E i \in 1..next_id :
          /\ i \notin InFlight
          /\ \A p \in saved : p.id # i

\* C11: a connection gets past the greeting only if its first frame is a
\* Join; when the first event is another frame, a decode error or the end of
\* the stream, the connection is closed with no frame written, and nothing of
\* register_and_login (no store call, no presence key) is run for it.
C11_JoinFirst ==
    \A s \in Session :
        /\ sessions[s].st \notin {"greeting", "closed"} => sessions[s].first = "Join"
        /\ sessions[s].first \notin {"", "Join"} =>
               (sessions[s].st = "closed" /\ sessions[s].out = <<>>)

\* C11 witness: a connection that ended at once (zero bytes) is closed with
\* nothing written while another connection, which sent a Join, is Live
C11_Witness ==
    \E s1, s2 \in Session :
        /\ sessions[s1].first = "Eof" /\ sessions[s1].st = "closed"
        /\ IsLive(s2)

\* C12: the first frame the server writes after a successful Join is a single
\* HistoryResponse (which holds the '<user> joined.' packet of this Join).
C12_FirstFrameIsHistoryResponse ==
    \A s \in Session :
        IsLive(s) =>
            (Len(sessions[s].out) = 1 /\ sessions[s].out[1].kind = "HistoryResponse")

\* the usernames whose trimmed text has fewer than 3 bytes
ShortNames == {n \in Name : Len(trim(UsernameText(n))) < 3}

\* C13: a Join whose trimmed username is shorter than 3 ends the connection
\* with Error(UsernameTooShort) as the only frame written; no store call is
\* made for it (the connection never waits on one), no row is created and no
\* presence key is set for that username.
C13_ShortNameRejected ==
    /\ \A s \in Session :
          (sessions[s].first = "Join" /\ sessions[s].username \in ShortNames) =>
              /\ sessions[s].st = "closed"
              /\ sessions[s].out = <<ErrorFrame("UsernameTooShort")>>
    /\ \A n \in ShortNames : users[n] = NO_ROW /\ presence[n] = 0

\* C13 witness: a Join with the username " al" has been rejected
C13_Witness ==
    \E s \in Session :
        /\ sessions[s].first = "Join" /\ sessions[s].username = 0
        /\ sessions[s].st = "closed"

\* C14: when register_and_login reaches set_online for a username whose
\* presence key exists, the connection is closed with Error(UsernameTaken) as
\* the only frame written (Error(Internal) when the directory call itself
\* fails), without going through disconnect, and the key, its TTL and every
\* other session stay as they are.
C14_TakenRejected ==
    [][\A s \in Session :
          (/\ sessions[s].st = "set_online"
           /\ presence[sessions[s].username] > 0
           /\ sessions'[s] # sessions[s])
          => /\ sessions'[s].st = "closed"
             /\ sessions'[s].out \in {<<ErrorFrame("UsernameTaken")>>,
                                      <<ErrorFrame("Internal")>>}
             /\ presence' = presence
             /\ \A t \in Session \ {s} : sessions'[t] = sessions[t]]_vars

\* C14 witness: a Join was answered with Error(UsernameTaken) while the
\* session that owns the key is Live and the key is there
C14_Witness ==
    \E s1, s2 \in Session :
        /\ sessions[s1].st = "closed"
        /\ sessions[s1].out = <<ErrorFrame("UsernameTaken")>>
        /\ IsLive(s2)
        /\ presence[sessions[s2].username] > 0

\* C15 (as claimed): once the client of a Live session has sent no frame for
\* more than 30 s, the presence key of its username has expired.
C15_SilentClientExpires ==
    \A s \in Session :
        (IsLive(s) /\ sessions[s].silent > PRESENCE_TTL)
            => presence[sessions[s].username] = 0

\* C15 (amended): a presence key that no SET or EXPIRE has touched for 30 s
\* (the client sent no Heartbeat and the session ticker did not refresh it)
\* has expired, and a set_online for that username then succeeds, whatever
\* sessions are still open for it.
C15_UnrefreshedExpires ==
    \A u \in Name :
        stale[u] >= PRESENCE_TTL =>
            (presence[u] = 0 /\ set_online(presence, u).ok)

\* C15 witness: the key of a Live session with a silent client has expired,
\* a second connection has logged in with the same username and the first
\* session is still Live
C15_Witness ==
    \E s1, s2 \in Session :
        /\ s1 # s2
        /\ IsLive(s1) /\ sessions[s1].silent > PRESENCE_TTL
        /\ IsLive(s2) /\ sessions[s2].username = sessions[s1].username
        /\ sessions[s2].silent = 0

\* the positions of a connection task that has acquired its presence key and
\* has not called logout yet
HoldsKey == {"join_save", "join_publish", "history", "logout"} \cup Live

\* C16: a connection task that acquired a presence key does not end without
\* calling logout (it ends only out of disconnect).
C16_KeyReleasedAtEnd ==
    [][\A s \in Session :
          sessions[s].st \in HoldsKey => sessions'[s].st # "closed"]_vars

(***************************************************************************)
(* Properties of the message store                                         *)
(***************************************************************************)

\* the number of rows of the table with a timestamp in lo..hi
RECURSIVE RowsBetween(_, _, _)
RowsBetween(rs, lo, hi) ==
    IF lo > hi THEN 0
    ELSE IF lo = hi THEN rs[lo]
    ELSE LET mid == (lo + hi) \div 2
         IN  RowsBetween(rs, lo, mid) + RowsBetween(rs, mid + 1, hi)

Occurrences(s, x) == Cardinality({i \in 1..Len(s) : s[i] = x})

\* C17: get_history(before_ts) returns at most 50 packets, all with a
\* timestamp below before_ts, in ascending order of timestamp; they are
\* stored messages, as many as there are below the cursor up to 50, and no
\* stored message below the cursor that is left out is newer than a returned
\* one; on an empty store the result is empty.
C17_HistoryWindow ==
    \A h \in {history[i] : i \in 1..Len(history)} :
        LET r == h.result
            below == {t \in DOMAIN rows : t < h.before_ts}
            total == RowsBetween(rows, 1, Cardinality(below))
        IN  /\ Len(r) <= 50
            /\ \A i \in 1..Len(r) : r[i] \in below
            /\ \A i, j \in 1..Len(r) : i < j => r[i] <= r[j]
            /\ Len(r) = IF total < 50 THEN total ELSE 50
            /\ \A t \in below :
                  /\ Occurrences(r, t) <= rows[t]
                  /\ Occurrences(r, t) < rows[t] => \A i \in 1..Len(r) : r[i] >= t

\* C17 witness: a call whose cursor has more than 50 messages below it, of
\* several timestamps, left some of one timestamp out and returned others
C17_Witness ==
    /\ history # <<>>
    /\ Len(history[1].result) = 50
    /\ \E t \in DOMAIN rows :
          /\ 0 < Occurrences(history[1].result, t)
          /\ Occurrences(history[1].result, t) < rows[t]
    /\ history[1].result[1] # history[1].result[50]

\* the call history(100) on the table of the messages with timestamps 1..120
HistoryOf120 ==
    /\ DOMAIN rows = 1..120
    /\ history # <<>>
    /\ history[1].before_ts = 100

\* C18 (as claimed): after saving messages with timestamps 1..120,
\* history(100) returns exactly the messages with timestamps 51 through 99.
C18_History51To99 ==
    HistoryOf120 => history[1].result = [i \in 1..49 |-> 50 + i]

\* C18 (amended): after saving messages with timestamps 1..120, history(100)
\* returns exactly the 50 messages with timestamps 50 through 99, ascending.
C18_History50To99 ==
    HistoryOf120 => history[1].result = [i \in 1..50 |-> 49 + i]

\* C18 witness: history(100) has been called on that table
C18_Witness == HistoryOf120 /\ Len(history[1].result) = 50

(***************************************************************************)
(* Properties of the wire codec                                            *)
(***************************************************************************)

\* the decode calls that returned a message
OkCalls == SelectSeq(decoded, LAMBDA c : c.status = "ok")

\* C19: for every message m, decode applied to the bytes of encode(m)
\* returns m and leaves nothing of them; on a connection, the i-th message a
\* decode call returns is the i-th message encoded and the call consumes
\* exactly the bytes of its frame, and no call fails.
C19_RoundTrip ==
    /\ \A i \in 1..Len(sent) : decode(encode(sent[i])) = Decoded(sent[i], <<>>)
    /\ \A i \in 1..Len(decoded) : decoded[i].status \in {"ok", "incomplete"}
    /\ Len(OkCalls) <= Len(sent)
    /\ \A i \in 1..Len(OkCalls) :
          /\ OkCalls[i].msg = sent[i]
          /\ OkCalls[i].consumed = Len(encode(sent[i]))

\* C19 witness: a Chat message with a two-byte character and a negative
\* timestamp has been decoded, and a message of another variant after it
C19_Witness ==
    /\ Len(OkCalls) = 2
    /\ OkCalls[1].msg.type = "Chat"
    /\ OkCalls[1].msg.packet.sender = <<195, 169>>
    /\ OkCalls[1].msg.packet.timestamp = -1
    /\ OkCalls[2].msg.type = "Join"

\* all bytes have arrived and the decoder has asked for more
Drained ==
    /\ wire = <<>>
    /\ decoded # <<>>
    /\ decoded[Len(decoded)].status = "incomplete"
    /\ decoded[Len(decoded)].len = Len(buf)

\* C20: whatever the offset at which encode(m1) || encode(m2) is cut, the
\* decoder fed the first part and then the second returns m1, then m2, and
\* leaves the buffer empty; a call that returns 'incomplete' consumes no bytes
\* and is made on a buffer that does not hold the whole next frame.
C20_PartialBuffer ==
    /\ Drained => (buf = <<>> /\ [i \in 1..Len(OkCalls) |-> OkCalls[i].msg] = sent)
    /\ \A i \in 1..Len(decoded) :
          decoded[i].status = "incomplete" =>
              /\ decoded[i].consumed = 0
              /\ \/ Len(SelectSeq(SubSeq(decoded, 1, i), LAMBDA c : c.status = "ok"))
                        = Len(sent)
                 \/ decoded[i].len <
                        Len(encode(sent[Len(SelectSeq(SubSeq(decoded, 1, i),
                                                      LAMBDA c : c.status = "ok")) + 1]))

\* C20 witness: the stream was cut inside the first frame's payload; the
\* first call returned 'incomplete' and both messages were decoded after the
\* rest arrived
C20_Witness ==
    /\ Drained
    /\ Len(decoded) = 4
    /\ decoded[1].status = "incomplete" /\ decoded[1].len > 5
    /\ decoded[2].status = "ok" /\ decoded[3].status = "ok"

\* C21: for every message, the first 4 bytes of its encoded frame are the
\* big-endian length of the rest of the frame, and the frame is 4 + that
\* length bytes long.
C21_LengthPrefix ==
    \A i \in 1..Len(sent) :
        get_u32(SubSeq(encode(sent[i]), 1, 4)) = Len(encode(sent[i])) - 4

\* C22: on every byte sequence a decode call returns 'incomplete', a message
\* or an error; it never panics.
C22_NeverPanics ==
    \A i \in 1..Len(decoded) : decoded[i].status \in {"incomplete", "ok", "err"}

(***************************************************************************)
(* Properties of the load balancer                                         *)
(***************************************************************************)

\* the handle_connection tasks that are splicing bytes to b
Splicing(b) == {t \in Task : tasks[t].pc = "copy" /\ tasks[t].backend_addr = b}

AllFinished == \A t \in Task : tasks[t].pc = "idle"

HealthySet == {b \in DOMAIN backends : backends[b].is_healthy}

\* C2: for every backend b of the map, active_connections[b] is the number of
\* handle_connection tasks splicing to b, whatever discovery and the health
\* loop do in between.
C2_ActiveEqualsSplicing ==
    \A b \in DOMAIN backends :
        backends[b].active_connections = Cardinality(Splicing(b))

\* C3: dec_backend_connection is never applied to a backend whose
\* active_connections is 0 (a step that ends a copy finds a positive count
\* when its backend is in the map).
C3_DecNeverAtZero ==
    [][\A t \in Task :
          (/\ tasks[t].pc = "copy"
           /\ tasks'[t].pc = "idle"
           /\ tasks[t].backend_addr \in DOMAIN backends)
          => backends[tasks[t].backend_addr].active_connections > 0]_vars

\* C4: once every handle_connection task has finished, a backend that has
\* stayed in the map since it was added has active_connections = 0.
C4_AllFinishedZero ==
    \A b \in DOMAIN backends :
        (AllFinished /\ b \notin ever_removed) => backends[b].active_connections = 0

\* C4 witness: tasks have spliced to a backend that stayed in the map and all
\* of them have finished
C4_Witness ==
    \E b \in DOMAIN backends :
        AllFinished /\ b \notin ever_removed /\ b \in served

\* C5: a handle_connection task cancelled between the increment and the
\* return of the copy still decrements: on a backend that stayed in the map
\* the count is the number of tasks still splicing to it.
C5_CancelRestoresCount ==
    \A b \in DOMAIN backends :
        b \notin ever_removed =>
            backends[b].active_connections = Cardinality(Splicing(b))

\* C6: every result of next_backend on a snapshot is a healthy backend whose
\* active_connections is minimal among the healthy ones, and None exactly when
\* no backend is healthy.
C6_PickLeastHealthy ==
    \A i \in 1..Len(picks) :
        IF HealthySet = {} THEN picks[i] = None
        ELSE /\ picks[i] \in HealthySet
             /\ \A b \in HealthySet :
                   backends[picks[i]].active_connections <= backends[b].active_connections

\* C6 witness: the snapshot {(1,3,healthy), (2,1,healthy), (3,0,unhealthy)},
\* on which next_backend has returned 2
C6_Witness ==
    /\ DOMAIN backends = {1, 2, 3}
    /\ backends[1] = BackendState(3, TRUE)
    /\ backends[2] = BackendState(1, TRUE)
    /\ backends[3] = BackendState(0, FALSE)
    /\ picks # <<>> /\ picks[1] = 2

\* C7 (as claimed): a backend that has not passed a health check since it was
\* added is unhealthy and next_backend does not return it.
C7_UncheckedIsUnhealthy ==
    \A b \in DOMAIN backends :
        last_check[b] # "pass" =>
            (~backends[b].is_healthy /\ b \notin next_backend(backends, iter))

\* C7 (amended): a backend whose last health check since it was added failed
\* is unhealthy and next_backend does not return it.
C7_FailedIsUnhealthy ==
    \A b \in DOMAIN backends :
        last_check[b] = "fail" =>
            (~backends[b].is_healthy /\ b \notin next_backend(backends, iter))

\* C7 witness: the last check of one backend failed while another backend is
\* there to be chosen
C7_Witness ==
    \E b \in DOMAIN backends :
        last_check[b] = "fail" /\ HealthySet # {}

\* C8 (as claimed): a backend the health loop marked unhealthy is returned by
\* no next_backend call until a health check of it succeeds.
C8_MarkedNeverPicked ==
    \A i \in 1..Len(picks) : picks[i] \notin marked

\* C8 (amended): a backend the health loop marked unhealthy is returned by no
\* next_backend call until a health check of it succeeds or discovery adds it
\* again; tasks splicing to it keep their place and their count.
C8_FailedNeverPicked ==
    /\ \A i \in 1..Len(picks) :
          picks[i] \in DOMAIN backends => last_check[picks[i]] # "fail"
    /\ \A b \in DOMAIN backends :
          (last_check[b] = "fail" /\ b \notin ever_removed)
              => backends[b].active_connections = Cardinality(Splicing(b))

\* C8 witness: next_backend has been called while a backend that is marked
\* unhealthy has a task splicing to it
C8_Witness ==
    \E b \in DOMAIN backends :
        /\ last_check[b] = "fail" /\ b \notin ever_removed
        /\ Splicing(b) # {}
        /\ picks # <<>>

C30_DiscoveryReconciles ==
    [][/\ (discovery'.to_add = {} /\ discovery'.to_remove = {})
            => DOMAIN backends' = discovery'.redis_backends
       /\ \A a \in DOMAIN backends' \ DOMAIN backends :
            /\ a \in discovery.redis_backends
            /\ backends'[a] = BackendState(0, TRUE)
       /\ \A a \in DOMAIN backends \ DOMAIN backends' :
            a \notin discovery.redis_backends
       /\ (DiscoveryTick \/ DiscoveryAdd \/ DiscoveryRemove)
            => \A a \in DOMAIN backends \cap DOMAIN backends' :
                  backends'[a] = backends[a]
       /\ DiscoveryTick => backends' = backends]_vars

\* C30 witness: a tick has removed an address and kept another one whose
\* entry counts a connection or is unhealthy
C30_Witness ==
    /\ discovery.to_add = {} /\ discovery.to_remove = {}
    /\ ever_removed \ DOMAIN backends # {}
    /\ \E a \in DOMAIN backends :
          backends[a].active_connections > 0 \/ ~backends[a].is_healthy

\* the connection has left run's loop
Left(s) == sessions[s].st \in {"logout", "left_save", "left_publish", "closed"}

ChatFails(s) ==
    \/ sessions[s].st = "chat_save" /\ sessions[s].packet \notin saved'
    \/ sessions[s].st = "chat_publish" /\ sessions[s].packet \notin published'

C29_WrongPasswordRejected ==
    [][\A s \in Session :
          /\ (/\ AuthVerifyAgain(s)
              /\ users[sessions[s].username] \notin {NO_ROW, sessions[s].password})
                => /\ sessions'[s].st = "closed"
                   /\ sessions'[s].err \in {"InvalidCredentials", "Database"}
                   /\ presence' = presence
                   /\ users' = users
          /\ AuthCreate(s) =>
                /\ users[sessions[s].username] # NO_ROW => users' = users
                /\ (users[sessions[s].username] = NO_ROW /\ sessions'[s].st = "verify2")
                      => users' = [users EXCEPT ![sessions[s].username] = sessions[s].password]
          /\ sessions'[s].st = "set_online"
                => users'[sessions'[s].username] = sessions'[s].password]_vars

\* C29 witness: one connection created the row and is Live, another gave a
\* different password for it and was rejected with InvalidCredentials
C29_Witness ==
    \E s1, s2 \in Session :
        /\ IsLive(s1)
        /\ users[sessions[s1].username] # NO_ROW
        /\ sessions[s2].st = "closed"
        /\ sessions[s2].err = "InvalidCredentials"

(***************************************************************************)
(* Properties of the in-memory ChatServer                                  *)
(***************************************************************************)

\* what C24 says of register_user and remove_user, but for the way the
\* length of the name is measured
RegisterContract(long_enough(_)) ==
    /\ MemRegister =>
          /\ result'.ok <=> /\ long_enough(result'.name)
                            /\ result'.name \notin {SERVER_NAME, CLIENT_NAME}
                            /\ ~contains_key(active_users, result'.name)
          /\ ~result'.ok => active_users' = active_users
          /\ result'.ok =>
                /\ contains_key(active_users', result'.name)
                /\ \A e \in active_users : e \in active_users'
    /\ MemRemove =>
          /\ ~contains_key(active_users', result'.name)
          /\ (long_enough(result'.name) /\ result'.name \notin {SERVER_NAME, CLIENT_NAME})
                => \A w \in Writer : register_user(active_users', result'.name, w).ok
    /\ \A e1, e2 \in active_users' : e1.name = e2.name => e1 = e2

AtLeastThreeCharacters(name) == Characters(name) >= MIN_NAME_LEN
AtLeastThreeBytes(name) == Len(name) >= MIN_NAME_LEN

\* C24: register_user(name) succeeds exactly when name has at least 3
\* characters, is not "server" or "client" and is not in active_users; a
\* rejected registration leaves active_users unchanged; after remove_user(name)
\* the name can be registered again; active_users never holds two entries for
\* one name.
C24_RegisterByCharacters == [][RegisterContract(AtLeastThreeCharacters)]_vars

\* C24 (amended): the same with the length of the name taken in bytes of its
\* UTF-8 encoding: a name of at least 3 bytes.
C24_RegisterByBytes == [][RegisterContract(AtLeastThreeBytes)]_vars

\* C24 witness: the two-character name "éé" (4 bytes) is registered and a
\* second registration of it has just been rejected
C24_Witness ==
    /\ result = [op |-> "register_user", name |-> <<195, 169, 195, 169>>, ok |-> FALSE]
    /\ contains_key(active_users, <<195, 169, 195, 169>>)

\* what C25 says of the reaper and of heartbeat, but for the ages at which a
\* pass removes an entry
ReaperContract(too_old(_)) ==
    /\ ReaperPass =>
          /\ \A e \in active_users : e \in active_users' <=> ~too_old(e.age)
          /\ active_users' \subseteq active_users
          /\ {reaper'.timed_out_users[i] : i \in 1..Len(reaper'.timed_out_users)}
                = {e.name : e \in active_users \ active_users'}
          /\ reaper'.until = REAPER_PERIOD_MS
    /\ reaper.timed_out_users # <<>> =>
          \/ UNCHANGED <<reaper, chat_history>>
          \/ /\ chat_history' =
                   Append(chat_history, TimedOutPacket(Head(reaper.timed_out_users)))
             /\ reaper'.timed_out_users = Tail(reaper.timed_out_users)
    /\ (\E e \in active_users : ~contains_key(active_users', e.name))
          => ReaperPass \/ MemRemove
    /\ MemHeartbeat =>
          IF contains_key(active_users, result'.name)
          THEN /\ result'.ok
               /\ \A e \in active_users :
                     IF e.name = result'.name
                     THEN [e EXCEPT !.age = 0] \in active_users'
                     ELSE e \in active_users'
          ELSE /\ ~result'.ok
               /\ active_users' = active_users

OlderThan30s(age) == age > REAPER_TIMEOUT_S * 1000
AtLeast31s(age) == age >= (REAPER_TIMEOUT_S + 1) * 1000

\* C25: a reaper pass removes exactly the users whose last heartbeat is more
\* than 30 s old, passes are 10 s apart, each removed name is broadcast as
\* '<name> timed out.', nothing else but remove_user takes a user out, and
\* heartbeat(name) restarts the age of a registered name and returns false
\* for an unknown one.
C25_ReapedAfter30s == [][ReaperContract(OlderThan30s)]_vars

\* C25 (amended): the same with the age taken in whole seconds: a pass
\* removes exactly the users whose last heartbeat is at least 31 s old.
C25_ReapedAt31s == [][ReaperContract(AtLeast31s)]_vars

\* C25 witness: a pass has just removed a user, whose time-out was broadcast,
\* and kept a user last seen 30.5 s before it
C25_Witness ==
    /\ reaper = [until |-> REAPER_PERIOD_MS, timed_out_users |-> <<>>]
    /\ Len(chat_history) = 1
    /\ \E e \in active_users : e.age = REAPER_TIMEOUT_S * 1000 + HalfSecond

(***************************************************************************)
(* Properties of the bus and of the Live loop                              *)
(***************************************************************************)

\* session s has fallen behind by more than the channel holds
Overrun(s) == rxs[s].pc # "closed" /\ rxs[s].next < oldest(bus)

C28_SessionOrder ==
    [][\A s \in Session :
          /\ rxs'[s].handled # rxs[s].handled =>
                \/ rxs'[s].pc = "closed"
                \/ /\ rxs[s].pc = "select" /\ rxs'[s].pc = "handling"
                   /\ rxs'[s].handled = rxs[s].handled + 1
                   /\ rxs[s].replied = rxs[s].handled
          /\ rxs'[s].replied # rxs[s].replied =>
                \/ rxs'[s].pc = "closed"
                \/ /\ rxs[s].pc = "handling" /\ rxs'[s].pc = "select"
                   /\ rxs'[s].replied = rxs[s].handled
          /\ rxs'[s].written # rxs[s].written =>
                \/ rxs'[s].pc = "closed"
                \/ /\ rxs[s].pc = "select" /\ rxs'[s].pc = "select"
                   /\ rxs'[s].written = rxs[s].written + 1
                   /\ rxs'[s].written <= bus
                   /\ rxs'[s].replied = rxs[s].replied
          /\ (RxRecv(s) /\ rxs'[s].written = rxs[s].written) => rxs'[s].pc = "closed"
          /\ rxs[s].pc = "closed" => rxs'[s] = rxs[s]]_vars

\* C28 witness: a session has answered every frame of its client and written
\* every message of the bus, and is in its loop
C28_Witness ==
    \E s \in Session :
        /\ rxs[s].pc = "select"
        /\ rxs[s].replied = MaxFrames
        /\ rxs[s].written = MaxBusMessages
        /\ bus = MaxBusMessages

(***************************************************************************)
(* Properties of presence keys and their owners                            *)
(***************************************************************************)

\* C36: a disconnect removes a presence key only if the key belongs to the
\* disconnecting session: when another session's SET NX made the key that
\* exists now, the disconnect leaves it in place.
C36_DisconnectKeepsOthersKey ==
    [][\A a \in Session :
          (/\ Disconnect(a)
           /\ presence[sessions[a].username] > 0
           /\ ~OwnsKey(a, sessions[a].username))
          => presence'[sessions[a].username] > 0]_vars

(***************************************************************************)
(* Properties of routing under concurrency                                 *)
(***************************************************************************)

\* no connection has ended and every started task has incremented
AllIncremented == served = {} /\ \A t \in Task : tasks[t].pc # "dial"

\* C38: with fixed healthy backends that start at 0 and connections that
\* never end, once every started task has incremented, the largest and the
\* smallest active_connections differ by at most 1.
C38_LeastConnectionsBalanced ==
    AllIncremented =>
        \A a, b \in DOMAIN backends :
            backends[a].active_connections - backends[b].active_connections <= 1

(***************************************************************************)
(* Properties of pagination                                                *)
(***************************************************************************)

\* C40: paginating backwards from a cursor above every stored timestamp
\* until a response is empty returns every stored message exactly once: the
\* client then holds as many messages of each timestamp as the table.
C40_PaginationComplete ==
    (pager.empty /\ pager.cursor > 0) =>
        \A t \in Timestamp : Occurrences(pager.messages, t) = rows[t]

(***************************************************************************)
(* Properties of concurrent calls on the in-memory ChatServer              *)
(***************************************************************************)

\* C37: whatever the interleaving of register_user(u) with a broadcast(m),
\* once both have returned u has received m exactly once, in the history
\* replay or as the live broadcast.
C37_ExactlyOnce ==
    \A w \in Writer, m \in Packet :
        (calls.reg[w] = "done" /\ calls.bc[m] = "done")
        => Occurrences(mem.got[w], m) = 1

(***************************************************************************)
(* Properties of the wait for the first frame                              *)
(***************************************************************************)

\* C35: a connection does not remain in Greeting forever, whether or not
\* its client sends a first frame: the wait is bounded and the connection
\* leaves Greeting in the end.
C35_GreetingEnds ==
    \A s \in Session : (sessions[s].st = "greeting") ~> (sessions[s].st # "greeting")

(***************************************************************************)
(* Properties of the RateLimitedStream                                     *)
(***************************************************************************)

\* C33: the bytes of a successful inner read become debt (none for a read
\* of 0 bytes); a poll_read that reaches the inner stream with a debt of k
\* has before asked the limiter for k cells, which are taken if it grants
\* them; when the limiter refuses with a wait, the poll returns Pending
\* without reading and the stream sleeps for that wait, and no poll reads
\* from the inner stream while that wait has not passed.
C33_ReadsAreCharged ==
    [][PollRead =>
         /\ stream'.last.inner =>
                stream'.pending_bytes = stream'.last.debt + stream'.last.n
         /\ (stream'.last.inner /\ stream.pending_bytes > 0) =>
                stream'.last.requested = stream.pending_bytes
         /\ stream'.last.outcome = "ok" =>
                (limiter' = limiter - stream.pending_bytes /\ stream'.last.debt = 0)
         /\ (stream'.last.outcome = "not_until" /\ stream'.last.wait > 0) =>
                /\ ~stream'.last.inner
                /\ stream'.last.ret = "Pending"
                /\ stream'.sleep = Sleep(stream'.last.wait)
                /\ stream'.pending_bytes = stream.pending_bytes
         /\ (stream.sleep.armed /\ stream.sleep.left > 0) => ~stream'.last.inner]_vars

\* a read of some bytes was charged and refused, and the stream sleeps
C33_Witness ==
    /\ stream.last.requested > 0
    /\ stream.last.outcome = "not_until"
    /\ stream.sleep.armed /\ stream.sleep.left > 0
    /\ stream.last.ret = "Pending"

\* C34: a poll_read on a stream without debt and without a stored sleep polls
\* the inner stream at once, and a poll_read while a stored sleep has not
\* completed does not poll the inner stream and leaves the sleep in place.
C34_FirstReadNotDelayed ==
    [][PollRead =>
         /\ (stream.pending_bytes = 0 /\ ~stream.sleep.armed) =>
                (stream'.last.inner /\ stream'.last.requested = 0)
         /\ (stream.sleep.armed /\ stream.sleep.left > 0) =>
                (~stream'.last.inner /\ stream'.last.ret = "Pending"
                 /\ stream'.sleep = stream.sleep /\ limiter' = limiter)]_vars

\* a poll_read met a sleep that had not completed and returned Pending
C34_Witness ==
    /\ stream.sleep.armed /\ stream.sleep.left > 0
    /\ stream.last.ret = "Pending"
    /\ stream.last.requested = 0
    /\ ~stream.last.inner

(***************************************************************************)
(* Properties of the per-ip quota records                                  *)
(***************************************************************************)

\* C31: when the connection limiter refuses an accepted connection, no task
\* is spawned for it (no TLS handshake), no backend is picked or dialed, no
\* active_connections changes, and the ip's quota record is in the table
\* with the last_seen_ms this accept stamped.
C31_RefusedConnectionDropped ==
    [][(AcceptCheck /\ listener'.verdict = "refused") =>
          /\ conns' = conns
          /\ tasks' = tasks /\ backends' = backends /\ picks' = picks
          /\ clients'[listener.ip] = listener.record
          /\ records'[listener.record].last_seen_ms = listener.stamp]_vars

\* C32: a cleanup pass removes the record of an ip exactly if its
\* last_seen_ms is at least 5 minutes before the pass's reading of now, and
\* keeps every record seen more recently, a record stamped after that reading
\* included.
C32_CleanupEvictsExactlyExpired ==
    [][\A ip \in Ip :
          (CleanupVisit(ip) /\ clients[ip] # None) =>
              (clients'[ip] = None <=>
                  cleanup.now - records[clients[ip]].last_seen_ms >= EXPIRATION_MS)]_vars

\* the connections whose RateLimitedStream exists
LiveStreams == {c \in Task : conns[c].pc = "open"}

\* C39: the table holds one record for an ip, and every live
\* RateLimitedStream of the ip holds the bandwidth limiter of that record, so
\* that any two of them share one limiter, also after cleanup passes.
C39_OneLimiterPerIp ==
    /\ \A c \in LiveStreams : clients[conns[c].ip] = conns[c].record
    /\ \A c, d \in LiveStreams :
          conns[c].ip = conns[d].ip => conns[c].record = conns[d].record

====
